---- MODULE Spec2Model ----
(***************************************************************************)
(* The batched-update scheduler (ReactUpdates), its callback queue and the *)
(* composite-component reconciler (ReactCompositeComponent), modelled as a *)
(* state machine.  The synchronous, recursive work of one mount / update / *)
(* unmount is computed by operators over a machine-state record `s`; the   *)
(* flush loop of ReactUpdates is split into the steps of its transaction.  *)
(* User code (lifecycle hooks, callbacks, render) is an input: each       *)
(* run draws a `script` saying which hook of which type misbehaves, and    *)
(* how.                                                                    *)
(***************************************************************************)
EXTENDS Integers, Sequences, FiniteSets, TLC

VARIABLES
  inst,               \* every internal instance ever constructed, by id
  dirtyComponents,    \* ReactUpdates: ids awaiting reconciliation
  updateBatchNumber,  \* ReactUpdates: batch counter
  asapCallbackQueue,  \* ReactUpdates: callbacks passed to asap
  asapEnqueued,       \* ReactUpdates: asap flag
  isBatchingUpdates,  \* batching strategy flag
  nextMountID,        \* ReactCompositeComponent: mount order counter
  reactMountReady,    \* callback queue of the reconcile transaction
  frames,             \* active flushBatchedUpdates invocations, outermost first
  mode,               \* "idle" | "batch" | "flush"
  container,          \* top-level wrapper mounted in the container (0: none)
  calls,              \* external API calls made so far
  budget,             \* misbehaviours user code may still show
  script,             \* what the user code of this run does
  lastError,          \* error that reached the caller of the last trigger
  log                 \* events of the current outermost batch, in order

vars ==
  <<inst, dirtyComponents, updateBatchNumber, asapCallbackQueue, asapEnqueued,
    isBatchingUpdates, nextMountID, reactMountReady, frames,
    mode, container, calls, budget, script, lastError, log>>

-----------------------------------------------------------------------------
(* Bounds of the model *)

\* external API calls (setState, forceUpdate, render) over a run
MaxCalls == 2
\* misbehaviours of user code (a re-entrant setState or asap from a hook or
\* callback, a throw) over a run
MaxBudget == 1
\* entries of the pending state queue handed to _processPendingState
MaxQueue == 3
\* calls made on a CallbackQueue taken on its own
MaxOps == 5
\* calls (setState, unmountComponent) made on a mounted tree that is taken
\* apart instance by instance
MaxUnmounts == 3

-----------------------------------------------------------------------------
(* Values *)

Null == 0
NoErr == "none"
Absent == -1
Keys == {"n", "sw"}

NullState == [k \in Keys |-> Absent]
NoElement == [type |-> "none", key |-> 0, props |-> 0, id |-> 0, child |-> "none"]

\* emptyObject: the context every tree of the model is rendered with
emptyObject == 0

CompositeTypes ==
  [ImpureClass |-> 0, PureClass |-> 1, StatelessFunctional |-> 2]

UserTypes == {"Outer", "Inner", "Other"}

\* The component classes of the model and the hooks each one defines.
\*   TopLevelWrapper -> Outer -> (Inner | Other) -> div
\* Outer is a class with an error-recovery hook, Inner a pure class, Other a
\* function unit.
Hooks(type) ==
  CASE type = "Outer" ->
         {"unstable_handleError", "componentWillMount", "componentDidMount",
          "componentWillReceiveProps", "shouldComponentUpdate",
          "componentWillUpdate", "componentDidUpdate", "componentWillUnmount",
          "render"}
    [] type = "Inner" ->
         {"componentWillMount", "componentDidMount", "componentWillReceiveProps",
          "componentWillUpdate", "componentDidUpdate", "componentWillUnmount",
          "render"}
    [] type = "Guard" ->
         {"unstable_handleError", "componentDidMount", "componentWillUnmount",
          "render"}
    [] type = "TopLevelWrapper" -> {"render"}
    [] OTHER -> {}

shouldConstruct(type) == type \in {"TopLevelWrapper", "Outer", "Inner", "Guard"}

\* the tags of the host components; a list has children of its own:
\*   ul -> (Inner, Guard)      Guard -> ol -> (Inner, Other)
\* Guard is a class with an error-recovery hook.
HostTypes == {"div", "ul", "ol"}

HostChildren(type) ==
  CASE type = "ul" -> <<"Inner", "Guard">>
    [] type = "ol" -> <<"Inner", "Other">>
    [] OTHER -> <<>>

isPureComponent(type) == type = "Inner"

\* state assigned by the class constructor (undefined for the others)
ConstructorState(type) ==
  CASE type = "Outer" -> [n |-> 0, sw |-> 0]
    [] type = "Inner" -> [n |-> 0, sw |-> Absent]
    [] OTHER -> NullState

\* entries of a pending state queue: a plain partial state or an updater
Partial(k, v) == [fn |-> "none", partial |-> [NullState EXCEPT ![k] = v]]
Toggle == [fn |-> "toggle", partial |-> NullState]
Increment == [fn |-> "increment", partial |-> NullState]
Payloads == {Toggle, Partial("n", 1)}

\* Object.assign(target, source) on states: the keys present in source win
ObjectAssign(target, source) ==
  [k \in Keys |-> IF source[k] # Absent THEN source[k] ELSE target[k]]

\* state.n + 1 in an updater: undefined + 1 is NaN, and so is NaN + 1
NaN == -2
PlusOne(v) == IF v \in {Absent, NaN} THEN NaN ELSE v + 1

\* partial.call(inst, nextState, props, context) for the updaters of the model
CallUpdater(fn, state, props) ==
  CASE fn = "toggle" -> [NullState EXCEPT !["sw"] = IF state["sw"] = 1 THEN 0 ELSE 1]
    [] fn = "increment" -> [NullState EXCEPT !["n"] = PlusOne(state["n"])]
    [] OTHER -> NullState

shallowEqual(a, b) == a = b

ReactElement(type, key, props, id, child) ==
  [type |-> type, key |-> key, props |-> props, id |-> id, child |-> child]

shouldUpdateReactComponent(prevElement, nextElement) ==
  /\ prevElement.type = nextElement.type
  /\ prevElement.key = nextElement.key

-----------------------------------------------------------------------------
(* The machine state threaded through the synchronous code *)

NoScript == [hook |-> "none", type |-> "none", act |-> "none", scu |-> TRUE]

Cur ==
  [inst |-> inst, dirtyComponents |-> dirtyComponents,
   updateBatchNumber |-> updateBatchNumber,
   asapCallbackQueue |-> asapCallbackQueue, asapEnqueued |-> asapEnqueued,
   isBatchingUpdates |-> isBatchingUpdates, nextMountID |-> nextMountID,
   reactMountReady |-> reactMountReady,
   budget |-> budget, log |-> log,
   script |-> script, callbackQueue |-> <<>>, err |-> NoErr,
   caughtError |-> NoErr, failedAt |-> Absent,
   ret |-> NoElement, val |-> NullState, valOf |-> "none"]

Commit(s) ==
  /\ inst' = s.inst
  /\ dirtyComponents' = s.dirtyComponents
  /\ updateBatchNumber' = s.updateBatchNumber
  /\ asapCallbackQueue' = s.asapCallbackQueue
  /\ asapEnqueued' = s.asapEnqueued
  /\ isBatchingUpdates' = s.isBatchingUpdates
  /\ nextMountID' = s.nextMountID
  /\ reactMountReady' = s.reactMountReady
  /\ budget' = s.budget
  /\ log' = s.log
  /\ script' = s.script

Logged(s, event) == [s EXCEPT !.log = Append(@, event)]

TypeOf(s, i) == s.inst[i]._currentElement.type

Ok(s) == s.err = NoErr

\* The statements of the synchronous code in sequence: Let names a value
\* for the statements after it, Then goes on unless an error is thrown.
Let(e, F(_)) == F(e)

Then(s, F(_)) == IF Ok(s) THEN F(s) ELSE s

-----------------------------------------------------------------------------
(* CallbackQueue: a queue is the sequence of its (callback, context) pairs; *)
(* the empty sequence stands for _callbacks = _contexts = null.            *)

Callback(kind, ctx) == [kind |-> kind, ctx |-> ctx]

CallbackQueue_enqueue(queue, callback) == Append(queue, callback)

CallbackQueue_checkpoint(queue) == Len(queue)

CallbackQueue_rollback(queue, len) ==
  IF queue # <<>> THEN SubSeq(queue, 1, len) ELSE queue

CallbackQueue_reset(queue) == <<>>

-----------------------------------------------------------------------------
(* ReactUpdates.enqueueUpdate / asap, and the update queue handed to units  *)

\* batchingStrategy.batchedUpdates(fn, ...): raises the flag around fn; the
\* flush and the reset of the flag on the outermost call are the steps
\* FlushTest .. FlushReturn below.
batchedUpdatesOpen(s) == [s EXCEPT !.isBatchingUpdates = TRUE]

\* faulty variant: appends without looking at the batching strategy
enqueueUpdate_unbatched(s, component) ==
  [s EXCEPT !.dirtyComponents = Append(@, component),
            !.log = Append(@, <<"enqueueUpdate", component,
                                s.isBatchingUpdates, FALSE>>),
            !.inst[component]._updateBatchNumber =
               IF @ = Null THEN s.updateBatchNumber + 1 ELSE @]

\* Outside a batch the call goes through batchingStrategy.batchedUpdates and
\* comes back here with the flag raised (b).  The last two fields of the
\* event are history: the flag at the time of the push, and whether this
\* call had to open the batch.
enqueueUpdate(s, component) ==
  LET b == IF ~s.isBatchingUpdates THEN batchedUpdatesOpen(s) ELSE s
  IN [b EXCEPT !.dirtyComponents = Append(@, component),
               !.log = Append(@, <<"enqueueUpdate", component,
                                   b.isBatchingUpdates, ~s.isBatchingUpdates>>),
               !.inst[component]._updateBatchNumber =
                  IF @ = Null THEN b.updateBatchNumber + 1 ELSE @]

\* faulty variant: calls the callback at once
asap_atOnce(s, callback) ==
  [s EXCEPT !.log = @ \o <<<<"asapEnqueue", callback.ctx>>,
                            <<callback.kind, callback.ctx>>>>]

asap(s, callback) ==
  [s EXCEPT !.asapCallbackQueue = CallbackQueue_enqueue(@, callback),
            !.asapEnqueued = TRUE,
            !.log = Append(@, <<"asapEnqueue", callback.ctx>>)]

\* ReactInstanceMap.get(publicInstance): the internal instance, while mapped
Mapped(s, i) == i # 0 /\ s.inst[i].inMap

enqueueSetState(s, i, payload) ==
  IF ~Mapped(s, i) THEN s
  ELSE enqueueUpdate(
         [s EXCEPT !.inst[i]._pendingStateQueue = Append(@, payload)], i)

enqueueCallback(s, i, callback) ==
  IF ~Mapped(s, i) THEN s
  ELSE enqueueUpdate(
         [s EXCEPT !.inst[i]._pendingCallbacks = Append(@, callback)], i)

enqueueForceUpdate(s, i) ==
  IF ~Mapped(s, i) THEN s
  ELSE enqueueUpdate([s EXCEPT !.inst[i]._pendingForceUpdate = TRUE], i)

enqueueElementInternal(s, i, nextElement, nextContext) ==
  enqueueUpdate([s EXCEPT !.inst[i]._pendingElement = nextElement,
                          !.inst[i]._context = nextContext], i)

-----------------------------------------------------------------------------
(* User code.  A hook or callback of instance i runs: it is logged, and if  *)
(* the step's script names it, it misbehaves as the script says.           *)

\* the other mounted unit, as the code of unit i can reach it: the parent
\* of an Inner, the child of an Outer (0 when there is none)
OtherUnit(s, i) ==
  LET found == {j \in 1..Len(s.inst) :
                  /\ s.inst[j].inMap
                  /\ s.inst[j]._currentElement.type \in {"Outer", "Inner"}
                  /\ s.inst[j]._currentElement.type # TypeOf(s, i)}
  IN IF found = {} THEN 0 ELSE CHOOSE j \in found : TRUE

\* every misbehaviour is paid from budget; what the shouldComponentUpdate
\* of Outer answers (script.scu) is no misbehaviour
Fires(s, i, hook) ==
  /\ s.script.hook = hook
  /\ i # 0
  /\ s.script.type = TypeOf(s, i)
  /\ s.budget > 0

Misbehave(s, i) ==
  LET act == s.script.act
      paid == [s EXCEPT !.budget = @ - 1]
  IN CASE act = "throw" -> [paid EXCEPT !.err = "Error"]
       [] act = "setState" -> enqueueSetState(paid, i, Toggle)
       [] act = "setStateOther" ->
            enqueueSetState(paid, OtherUnit(s, i), Partial("n", 1))
       [] act = "setStateOtherThrow" ->
            [enqueueSetState(paid, OtherUnit(s, i), Partial("n", 1))
               EXCEPT !.err = "Error"]
       [] act = "asap" -> asap(paid, Callback("asap", i))
       [] OTHER -> s

invokeHook(s, i, hook) ==
  IF Fires(s, i, hook) THEN Misbehave(Logged(s, <<hook, i>>), i)
  ELSE Logged(s, <<hook, i>>)

\* callbacks[k].call(contexts[k], arg) for k = 1 .. Len(callbacks), stopping
\* at the first one that throws
RECURSIVE CallAll(_, _)
CallAll(s, callbacks) ==
  IF callbacks = <<>> \/ ~Ok(s) THEN s
  ELSE CallAll(invokeHook(s, Head(callbacks).ctx, Head(callbacks).kind),
               Tail(callbacks))

-----------------------------------------------------------------------------
(* instantiateReactComponent and the host component behind ReactReconciler  *)

construct(element) ==
  [kind |-> "composite", _currentElement |-> element, _compositeType |-> Null - 1,
   _instance |-> FALSE, inMap |-> FALSE, _updateBatchNumber |-> Null,
   _pendingElement |-> NoElement, _pendingStateQueue |-> <<>>,
   _pendingReplaceState |-> FALSE, _pendingForceUpdate |-> FALSE,
   _renderedComponent |-> 0, _context |-> emptyObject, _mountOrder |-> 0,
   _pendingCallbacks |-> <<>>, _calledComponentWillUnmount |-> FALSE,
   state |-> NullState, props |-> 0, _hostNode |-> FALSE,
   _renderedChildren |-> <<>>,
   \* history: how often componentWillUnmount was invoked
   willUnmountCalls |-> 0]

createInternalComponent(element) ==
  [construct(element) EXCEPT !.kind = "host"]

\* the id the next instantiateReactComponent call gives its instance
NewInstance(s) == Len(s.inst) + 1

instantiateReactComponent(s, node) ==
  [s EXCEPT !.inst = Append(@, IF node.type \in HostTypes
                               THEN createInternalComponent(node)
                               ELSE construct(node))]

\* Identity of a new element object.  Elements are compared by identity
\* only with the element held by the instance they are handed to, so a new
\* object is told apart from that one (1 and 2 alternate).
NewElementId(held) == IF held.id = 1 THEN 2 ELSE 1

\* the element inst.render() returns, from the unit's type, props and state:
\* the wrapper returns props.child, the others create an element
RenderOutput(s, i) ==
  LET me == s.inst[i]
      type == me._currentElement.type
      held == IF me._renderedComponent = 0 THEN NoElement
              ELSE s.inst[me._renderedComponent]._currentElement
      id == NewElementId(held)
  IN CASE type = "TopLevelWrapper" -> me._currentElement.child
       [] type = "Outer" ->
            ReactElement(IF me.state["sw"] = 1 THEN "Other" ELSE "Inner",
                         0, me.state["n"], id, "none")
       [] type = "Guard" -> ReactElement("ol", 0, 0, id, "none")
       [] OTHER -> ReactElement("div", 0, 0, id, "none")

_renderValidatedComponent(s, i) ==
  Then(invokeHook(s, i, "render"),
       LAMBDA s1 : [s1 EXCEPT !.ret = RenderOutput(s1, i)])

_processContext(context) == emptyObject

_processChildContext(s, i, currentContext) == currentContext

\* faulty variant: the loop goes through the queue from its end
RECURSIVE MergeQueue_reversed(_, _, _, _)
MergeQueue_reversed(nextState, queue, k, props) ==
  IF k > Len(queue) THEN nextState
  ELSE ObjectAssign(
         MergeQueue_reversed(nextState, queue, k + 1, props),
         IF queue[k].fn # "none"
         THEN CallUpdater(queue[k].fn,
                          MergeQueue_reversed(nextState, queue, k + 1, props),
                          props)
         ELSE queue[k].partial)

RECURSIVE MergeQueue(_, _, _, _)
MergeQueue(nextState, queue, k, props) ==
  IF k > Len(queue) THEN nextState
  ELSE MergeQueue(
         ObjectAssign(nextState,
                      IF queue[k].fn # "none"
                      THEN CallUpdater(queue[k].fn, nextState, props)
                      ELSE queue[k].partial),
         queue, k + 1, props)

\* faulty variant: copies the state when the queue is empty
_processPendingState_copy(s, i, props, context) ==
  LET queue == s.inst[i]._pendingStateQueue
      replace == s.inst[i]._pendingReplaceState
      s1 == [s EXCEPT !.inst[i]._pendingReplaceState = FALSE,
                      !.inst[i]._pendingStateQueue = <<>>]
  IN IF replace /\ Len(queue) = 1
     THEN [s1 EXCEPT !.val = queue[1].partial, !.valOf = "queue[0]"]
     ELSE [s1 EXCEPT !.val =
             MergeQueue(ObjectAssign(NullState,
                                     IF replace THEN queue[1].partial
                                     ELSE s.inst[i].state),
                        queue, IF replace THEN 2 ELSE 1, props),
                     !.valOf = "new"]

\* faulty variant: overlooks the replace flag
_processPendingState_merge(s, i, props, context) ==
  LET queue == s.inst[i]._pendingStateQueue
      s1 == [s EXCEPT !.inst[i]._pendingReplaceState = FALSE,
                      !.inst[i]._pendingStateQueue = <<>>]
  IN IF queue = <<>>
     THEN [s1 EXCEPT !.val = s.inst[i].state, !.valOf = "inst.state"]
     ELSE [s1 EXCEPT !.val =
             MergeQueue(ObjectAssign(NullState, s.inst[i].state),
                        queue, 1, props),
                     !.valOf = "new"]

\* returns the merged state in .val; .valOf tells which object that is: the
\* state object of the instance, the first entry of the queue, or a new one
_processPendingState(s, i, props, context) ==
  LET queue == s.inst[i]._pendingStateQueue
      replace == s.inst[i]._pendingReplaceState
      s1 == [s EXCEPT !.inst[i]._pendingReplaceState = FALSE,
                      !.inst[i]._pendingStateQueue = <<>>]
  IN IF queue = <<>>
     THEN [s1 EXCEPT !.val = s.inst[i].state, !.valOf = "inst.state"]
     ELSE IF replace /\ Len(queue) = 1
     THEN [s1 EXCEPT !.val = queue[1].partial, !.valOf = "queue[0]"]
     ELSE [s1 EXCEPT !.val =
             MergeQueue(ObjectAssign(NullState,
                                     IF replace THEN queue[1].partial
                                     ELSE s.inst[i].state),
                        queue, IF replace THEN 2 ELSE 1, props),
                     !.valOf = "new"]

getPublicInstance(s, i) ==
  IF s.inst[i]._compositeType = CompositeTypes.StatelessFunctional
  THEN 0
  ELSE IF s.inst[i]._instance THEN i ELSE 0

RECURSIVE mountComponent(_, _, _)
RECURSIVE performInitialMountWithErrorHandling(_, _, _, _)
RECURSIVE performInitialMount(_, _, _, _)
RECURSIVE unmountComponent(_, _, _)
RECURSIVE receiveComponent(_, _, _, _)
RECURSIVE updateComponent(_, _, _, _, _, _)
RECURSIVE _performComponentUpdate(_, _, _, _, _)
RECURSIVE _updateRenderedComponent(_, _, _)
RECURSIVE ReactReconciler_mountComponent(_, _, _)
RECURSIVE ReactReconciler_unmountComponent(_, _, _)
RECURSIVE ReactReconciler_receiveComponent(_, _, _, _)

RECURSIVE instantiateChildren(_, _, _)
RECURSIVE mountChildren(_, _, _, _)
RECURSIVE unmountChildren(_, _, _, _)
RECURSIVE updateChildren(_, _, _, _)

\* the children of host component i from the k-th on are instantiated, all
\* of them before the first one is mounted
instantiateChildren(s, i, k) ==
  LET types == HostChildren(s.inst[i]._currentElement.type)
  IN IF k > Len(types) THEN s
     ELSE instantiateChildren(
            [instantiateReactComponent(s, ReactElement(types[k], 0, 0, 1, "none"))
               EXCEPT !.inst[i]._renderedChildren = Append(@, NewInstance(s))],
            i, k + 1)

\* the children are mounted in order; a child that throws ends the loop
mountChildren(s, i, k, context) ==
  IF k > Len(s.inst[i]._renderedChildren) THEN s
  ELSE Then(ReactReconciler_mountComponent(s, s.inst[i]._renderedChildren[k],
                                           context),
            LAMBDA s1 : mountChildren(s1, i, k + 1, context))

unmountChildren(s, i, k, safely) ==
  IF k > Len(s.inst[i]._renderedChildren) THEN s
  ELSE Then(ReactReconciler_unmountComponent(s, s.inst[i]._renderedChildren[k],
                                             safely),
            LAMBDA s1 : unmountChildren(s1, i, k + 1, safely))

\* every child is of the type it had, so each one receives its new element
updateChildren(s, i, k, context) ==
  IF k > Len(s.inst[i]._renderedChildren) THEN s
  ELSE LET child == s.inst[i]._renderedChildren[k]
           held == s.inst[child]._currentElement
       IN Then(ReactReconciler_receiveComponent(
                 s, child, [held EXCEPT !.id = NewElementId(held)], context),
               LAMBDA s1 : updateChildren(s1, i, k + 1, context))

\* ReactReconciler: dispatch on the kind of the internal instance
ReactReconciler_mountComponent(s, i, context) ==
  IF s.inst[i].kind = "host"
  THEN mountChildren(
         instantiateChildren(
           Logged([s EXCEPT !.inst[i]._hostNode = TRUE], <<"mountHost", i>>),
           i, 1),
         i, 1, context)
  ELSE mountComponent(s, i, context)

ReactReconciler_unmountComponent(s, i, safely) ==
  IF s.inst[i].kind = "host"
  THEN Then(unmountChildren(Logged(s, <<"unmountHost", i>>), i, 1, safely),
            LAMBDA s1 : [s1 EXCEPT !.inst[i]._hostNode = FALSE,
                                   !.inst[i]._renderedChildren = <<>>])
  ELSE unmountComponent(s, i, safely)

ReactReconciler_receiveComponent(s, i, nextElement, context) ==
  IF s.inst[i].kind = "host"
  THEN updateChildren(
         Logged([s EXCEPT !.inst[i]._currentElement = nextElement],
                <<"receiveHost", i>>),
         i, 1, context)
  ELSE receiveComponent(s, i, nextElement, context)

-----------------------------------------------------------------------------
(* ReactCompositeComponent *)

\* new Component(props, context, updateQueue), or Component(props, ...) for a
\* function unit, whose result (.ret) is the rendered element
_constructComponent(s, i, doConstruct) ==
  IF doConstruct THEN [s EXCEPT !.ret = NoElement]
  ELSE _renderValidatedComponent(s, i)

\* inst.state = this._processPendingState(inst.props, inst.context)
MergePendingState(s, i) ==
  Let(_processPendingState(s, i, s.inst[i].props, emptyObject),
      LAMBDA m : [m EXCEPT !.inst[i].state = m.val])

\* history: mountComponent of instance i has returned or thrown
MountEnd(i, s) == Logged(s, <<IF Ok(s) THEN "mounted" ELSE "mountThrew", i>>)

\* faulty variant: reads the counter without incrementing it
mountComponent_sameOrder(s0, i, context) ==
  LET type == TypeOf(s0, i)
      doConstruct == shouldConstruct(type)
  IN MountEnd(i,
     Then(_constructComponent(
            [Logged(s0, <<"mountComponent", i>>)
               EXCEPT !.inst[i]._context = context,
                      !.inst[i]._mountOrder = s0.nextMountID], i, doConstruct),
       LAMBDA s2 :
     Then(Let([s2 EXCEPT
                 !.inst[i]._compositeType =
                    IF ~doConstruct THEN CompositeTypes.StatelessFunctional
                    ELSE IF isPureComponent(type) THEN CompositeTypes.PureClass
                    ELSE CompositeTypes.ImpureClass,
                 !.inst[i].props = s2.inst[i]._currentElement.props,
                 !.inst[i]._instance = TRUE,
                 !.inst[i].inMap = TRUE,
                 !.inst[i].state = ConstructorState(type),
                 !.inst[i]._pendingStateQueue = <<>>,
                 !.inst[i]._pendingReplaceState = FALSE,
                 !.inst[i]._pendingForceUpdate = FALSE],
              LAMBDA s3 :
                IF "unstable_handleError" \in Hooks(type)
                THEN performInitialMountWithErrorHandling(s3, i, s2.ret, context)
                ELSE performInitialMount(s3, i, s2.ret, context)),
       LAMBDA s4 :
     IF "componentDidMount" \in Hooks(type)
     THEN [s4 EXCEPT !.reactMountReady =
             CallbackQueue_enqueue(@, Callback("componentDidMount", i))]
     ELSE s4)))

\* faulty variant: calls componentDidMount at the end of mountComponent
mountComponent_didMountAtOnce(s0, i, context) ==
  LET type == TypeOf(s0, i)
      doConstruct == shouldConstruct(type)
  IN MountEnd(i,
     Then(_constructComponent(
            [Logged(s0, <<"mountComponent", i>>)
               EXCEPT !.inst[i]._context = context,
                      !.inst[i]._mountOrder = s0.nextMountID,
                      !.nextMountID = @ + 1], i, doConstruct),
       LAMBDA s2 :
     Then(Let([s2 EXCEPT
                 !.inst[i]._compositeType =
                    IF ~doConstruct THEN CompositeTypes.StatelessFunctional
                    ELSE IF isPureComponent(type) THEN CompositeTypes.PureClass
                    ELSE CompositeTypes.ImpureClass,
                 !.inst[i].props = s2.inst[i]._currentElement.props,
                 !.inst[i]._instance = TRUE,
                 !.inst[i].inMap = TRUE,
                 !.inst[i].state = ConstructorState(type),
                 !.inst[i]._pendingStateQueue = <<>>,
                 !.inst[i]._pendingReplaceState = FALSE,
                 !.inst[i]._pendingForceUpdate = FALSE],
              LAMBDA s3 :
                IF "unstable_handleError" \in Hooks(type)
                THEN performInitialMountWithErrorHandling(s3, i, s2.ret, context)
                ELSE performInitialMount(s3, i, s2.ret, context)),
       LAMBDA s4 :
     IF "componentDidMount" \in Hooks(type)
     THEN invokeHook(s4, i, "componentDidMount")
     ELSE s4)))

mountComponent(s0, i, context) ==
  LET type == TypeOf(s0, i)
      doConstruct == shouldConstruct(type)
  IN MountEnd(i,
     Then(_constructComponent(
            [Logged(s0, <<"mountComponent", i>>)
               EXCEPT !.inst[i]._context = context,
                      !.inst[i]._mountOrder = s0.nextMountID,
                      !.nextMountID = @ + 1], i, doConstruct),
       LAMBDA s2 :
     Then(Let([s2 EXCEPT
                 !.inst[i]._compositeType =
                    IF ~doConstruct THEN CompositeTypes.StatelessFunctional
                    ELSE IF isPureComponent(type) THEN CompositeTypes.PureClass
                    ELSE CompositeTypes.ImpureClass,
                 !.inst[i].props = s2.inst[i]._currentElement.props,
                 !.inst[i]._instance = TRUE,
                 !.inst[i].inMap = TRUE,
                 !.inst[i].state = ConstructorState(type),
                 !.inst[i]._pendingStateQueue = <<>>,
                 !.inst[i]._pendingReplaceState = FALSE,
                 !.inst[i]._pendingForceUpdate = FALSE],
              LAMBDA s3 :
                IF "unstable_handleError" \in Hooks(type)
                THEN performInitialMountWithErrorHandling(s3, i, s2.ret, context)
                ELSE performInitialMount(s3, i, s2.ret, context)),
       LAMBDA s4 :
     IF "componentDidMount" \in Hooks(type)
     THEN [s4 EXCEPT !.reactMountReady =
             CallbackQueue_enqueue(@, Callback("componentDidMount", i))]
     ELSE s4)))

\* faulty variant: the catch block keeps what the failed attempt enqueued
performInitialMountWithErrorHandling_noRollback(s, i, renderedElement, context) ==
  Let(performInitialMount(s, i, renderedElement, context), LAMBDA s1 :
  IF Ok(s1) THEN s1
  ELSE
    Then(invokeHook([s1 EXCEPT !.err = NoErr], i, "unstable_handleError"),
       LAMBDA s3 :
    Let(IF s3.inst[i]._pendingStateQueue # <<>> THEN MergePendingState(s3, i)
        ELSE s3,
       LAMBDA s4 :
    IF s4.inst[i]._renderedComponent = 0
    THEN Logged([s4 EXCEPT !.err = "TypeError"], <<"TypeError", i>>)
    ELSE Then(ReactReconciler_unmountComponent(s4, s4.inst[i]._renderedComponent,
                                               TRUE),
       LAMBDA s5 :
    performInitialMount(
      [s5 EXCEPT !.reactMountReady = CallbackQueue_rollback(
                    @, CallbackQueue_checkpoint(s4.reactMountReady))],
      i, renderedElement, context)))))

performInitialMountWithErrorHandling(s, i, renderedElement, context) ==
  Let(performInitialMount(s, i, renderedElement, context), LAMBDA s1 :
  IF Ok(s1) THEN s1
  ELSE \* catch (e)
    Then(invokeHook([s1 EXCEPT !.err = NoErr,
                               !.reactMountReady = CallbackQueue_rollback(
                                  @, CallbackQueue_checkpoint(s.reactMountReady))],
                    i, "unstable_handleError"),
       LAMBDA s3 :
    Let(IF s3.inst[i]._pendingStateQueue # <<>> THEN MergePendingState(s3, i)
        ELSE s3,
       LAMBDA s4 :
    \* this._renderedComponent is null: the call on it is a TypeError
    IF s4.inst[i]._renderedComponent = 0
    THEN Logged([s4 EXCEPT !.err = "TypeError"], <<"TypeError", i>>)
    ELSE Then(ReactReconciler_unmountComponent(s4, s4.inst[i]._renderedComponent,
                                               TRUE),
       LAMBDA s5 :
    performInitialMount(
      [s5 EXCEPT !.reactMountReady = CallbackQueue_rollback(
                    @, CallbackQueue_checkpoint(s4.reactMountReady))],
      i, renderedElement, context)))))

\* faulty variant: leaves the state queued by componentWillMount pending
performInitialMount_noMerge(s, i, renderedElement, context) ==
  Then(IF "componentWillMount" \in Hooks(TypeOf(s, i))
       THEN invokeHook(s, i, "componentWillMount")
       ELSE s,
     LAMBDA s1 :
  Then(IF renderedElement.id = 0 THEN _renderValidatedComponent(s1, i)
       ELSE [s1 EXCEPT !.ret = renderedElement],
     LAMBDA s2 :
  Let(NewInstance(s2), LAMBDA child :
  ReactReconciler_mountComponent(
    [instantiateReactComponent(s2, s2.ret)
       EXCEPT !.inst[i]._renderedComponent = child],
    child, _processChildContext(s2, i, context)))))

performInitialMount(s, i, renderedElement, context) ==
  Then(IF "componentWillMount" \in Hooks(TypeOf(s, i))
       THEN Then(invokeHook(s, i, "componentWillMount"), LAMBDA h :
                 IF h.inst[i]._pendingStateQueue # <<>>
                 THEN MergePendingState(h, i) ELSE h)
       ELSE s,
     LAMBDA s1 :
  Then(IF renderedElement.id = 0 THEN _renderValidatedComponent(s1, i)
       ELSE [s1 EXCEPT !.ret = renderedElement],
     LAMBDA s2 :
  Let(NewInstance(s2), LAMBDA child :
  ReactReconciler_mountComponent(
    [instantiateReactComponent(s2, s2.ret)
       EXCEPT !.inst[i]._renderedComponent = child],
    child, _processChildContext(s2, i, context)))))

\* faulty variant: leaves the pending state and callbacks on the instance
unmountComponent_keepPending(s0, i, safely) ==
  Let(Logged(s0, <<"unmountComponent", i>>), LAMBDA s :
  IF s.inst[i]._renderedComponent = 0 THEN s
  ELSE
    Then(ReactReconciler_unmountComponent(s, s.inst[i]._renderedComponent, safely),
       LAMBDA s2 :
    [s2 EXCEPT !.inst[i]._renderedComponent = 0,
               !.inst[i]._instance = FALSE,
               !.inst[i]._context = emptyObject,
               !.inst[i].inMap = FALSE]))

\* history only: unmountComponent has returned ("unmounted") or thrown
\* ("unmountThrew"); the event holds the instance as the call found it and
\* as it leaves it, and all instances as they are at this moment
UnmountEnd(s0, i, safely, s) ==
  Logged(s, <<IF Ok(s) THEN "unmounted" ELSE "unmountThrew", i, safely,
              s0.inst[i], s.inst[i], s.inst>>)

\* faulty variant: unmounts the rendered child before it calls the hook
unmountComponent_childFirst(s0, i, safely) ==
  UnmountEnd(s0, i, safely,
    Let(Logged(s0, <<"unmountComponent", i>>), LAMBDA s :
    IF s.inst[i]._renderedComponent = 0 THEN s
    ELSE
      Then(ReactReconciler_unmountComponent(s, s.inst[i]._renderedComponent, safely),
         LAMBDA s1 :
      Then(IF "componentWillUnmount" \in Hooks(TypeOf(s1, i))
                /\ ~s1.inst[i]._calledComponentWillUnmount
           THEN Let(invokeHook([s1 EXCEPT !.inst[i]._calledComponentWillUnmount = TRUE,
                                          !.inst[i].willUnmountCalls = @ + 1],
                               i, "componentWillUnmount"),
                    LAMBDA h :
                      IF safely /\ ~Ok(h)
                      THEN [h EXCEPT !.err = NoErr,
                                     !.caughtError = IF @ = NoErr THEN h.err ELSE @]
                      ELSE h)
           ELSE s1,
         LAMBDA s2 :
      [s2 EXCEPT !.inst[i]._renderedComponent = 0,
                 !.inst[i]._instance = FALSE,
                 !.inst[i]._pendingStateQueue = <<>>,
                 !.inst[i]._pendingReplaceState = FALSE,
                 !.inst[i]._pendingForceUpdate = FALSE,
                 !.inst[i]._pendingCallbacks = <<>>,
                 !.inst[i]._pendingElement = NoElement,
                 !.inst[i]._context = emptyObject,
                 !.inst[i].inMap = FALSE]))))

\* faulty variant: calls the hook unguarded whatever safely is
unmountComponent_unguarded(s0, i, safely) ==
  UnmountEnd(s0, i, safely,
    Let(Logged(s0, <<"unmountComponent", i>>), LAMBDA s :
    IF s.inst[i]._renderedComponent = 0 THEN s
    ELSE
      Then(IF "componentWillUnmount" \in Hooks(TypeOf(s, i))
                /\ ~s.inst[i]._calledComponentWillUnmount
           THEN Let(invokeHook([s EXCEPT !.inst[i]._calledComponentWillUnmount = TRUE,
                                         !.inst[i].willUnmountCalls = @ + 1],
                               i, "componentWillUnmount"),
                    LAMBDA h :
                      IF FALSE /\ ~Ok(h)
                      \* ReactErrorUtils.invokeGuardedCallback keeps the error
                      THEN [h EXCEPT !.err = NoErr,
                                     !.caughtError = IF @ = NoErr THEN h.err ELSE @]
                      ELSE h)
           ELSE s,
         LAMBDA s1 :
      Then(ReactReconciler_unmountComponent(s1, s1.inst[i]._renderedComponent, safely),
         LAMBDA s2 :
      [s2 EXCEPT !.inst[i]._renderedComponent = 0,
                 !.inst[i]._instance = FALSE,
                 !.inst[i]._pendingStateQueue = <<>>,
                 !.inst[i]._pendingReplaceState = FALSE,
                 !.inst[i]._pendingForceUpdate = FALSE,
                 !.inst[i]._pendingCallbacks = <<>>,
                 !.inst[i]._pendingElement = NoElement,
                 !.inst[i]._context = emptyObject,
                 !.inst[i].inMap = FALSE]))))

unmountComponent(s0, i, safely) ==
  UnmountEnd(s0, i, safely,
    Let(Logged(s0, <<"unmountComponent", i>>), LAMBDA s :
    IF s.inst[i]._renderedComponent = 0 THEN s
    ELSE
      Then(IF "componentWillUnmount" \in Hooks(TypeOf(s, i))
                /\ ~s.inst[i]._calledComponentWillUnmount
           THEN Let(invokeHook([s EXCEPT !.inst[i]._calledComponentWillUnmount = TRUE,
                                         !.inst[i].willUnmountCalls = @ + 1],
                               i, "componentWillUnmount"),
                    LAMBDA h :
                      IF safely /\ ~Ok(h)
                      \* ReactErrorUtils.invokeGuardedCallback keeps the error
                      THEN [h EXCEPT !.err = NoErr,
                                     !.caughtError = IF @ = NoErr THEN h.err ELSE @]
                      ELSE h)
           ELSE s,
         LAMBDA s1 :
      Then(ReactReconciler_unmountComponent(s1, s1.inst[i]._renderedComponent, safely),
         LAMBDA s2 :
      [s2 EXCEPT !.inst[i]._renderedComponent = 0,
                 !.inst[i]._instance = FALSE,
                 !.inst[i]._pendingStateQueue = <<>>,
                 !.inst[i]._pendingReplaceState = FALSE,
                 !.inst[i]._pendingForceUpdate = FALSE,
                 !.inst[i]._pendingCallbacks = <<>>,
                 !.inst[i]._pendingElement = NoElement,
                 !.inst[i]._context = emptyObject,
                 !.inst[i].inMap = FALSE]))))

receiveComponent(s, i, nextElement, nextContext) ==
  updateComponent([Logged(s, <<"receiveComponent", i>>)
                     EXCEPT !.inst[i]._pendingElement = NoElement], i,
                  s.inst[i]._currentElement, nextElement,
                  s.inst[i]._context, nextContext)

\* faulty variant: reconciles whether or not anything is pending
performUpdateIfNecessary_always(s, i) ==
  IF s.inst[i]._pendingElement.id # 0
  THEN ReactReconciler_receiveComponent(s, i, s.inst[i]._pendingElement,
                                        s.inst[i]._context)
  ELSE updateComponent(s, i, s.inst[i]._currentElement,
                       s.inst[i]._currentElement, s.inst[i]._context,
                       s.inst[i]._context)

\* faulty variant: overlooks the force flag
performUpdateIfNecessary_noForce(s, i) ==
  IF s.inst[i]._pendingElement.id # 0
  THEN ReactReconciler_receiveComponent(s, i, s.inst[i]._pendingElement,
                                        s.inst[i]._context)
  ELSE IF s.inst[i]._pendingStateQueue # <<>>
  THEN updateComponent(s, i, s.inst[i]._currentElement,
                       s.inst[i]._currentElement, s.inst[i]._context,
                       s.inst[i]._context)
  ELSE [s EXCEPT !.inst[i]._updateBatchNumber = Null]

performUpdateIfNecessary(s, i) ==
  IF s.inst[i]._pendingElement.id # 0
  THEN ReactReconciler_receiveComponent(s, i, s.inst[i]._pendingElement,
                                        s.inst[i]._context)
  ELSE IF s.inst[i]._pendingStateQueue # <<>> \/ s.inst[i]._pendingForceUpdate
  THEN updateComponent(s, i, s.inst[i]._currentElement,
                       s.inst[i]._currentElement, s.inst[i]._context,
                       s.inst[i]._context)
  ELSE [s EXCEPT !.inst[i]._updateBatchNumber = Null]

\* faulty variant: does not listen to shouldComponentUpdate
ShouldUpdate_deaf(s, i, prevProps, nextProps, nextState, answer) ==
  IF s.inst[i]._pendingForceUpdate THEN TRUE
  ELSE IF s.inst[i]._compositeType = CompositeTypes.PureClass
  THEN ~shallowEqual(prevProps, nextProps)
         \/ ~shallowEqual(s.inst[i].state, nextState)
  ELSE TRUE

\* faulty variant: the hook's answer counts even when the force flag is set
ShouldUpdate_forceAsks(s, i, prevProps, nextProps, nextState, answer) ==
  IF "shouldComponentUpdate" \in Hooks(TypeOf(s, i)) THEN answer
  ELSE IF s.inst[i]._pendingForceUpdate THEN TRUE
  ELSE IF s.inst[i]._compositeType = CompositeTypes.PureClass
  THEN ~shallowEqual(prevProps, nextProps)
         \/ ~shallowEqual(s.inst[i].state, nextState)
  ELSE TRUE

\* the shouldUpdate of updateComponent, once the pending state is merged (s)
\* and shouldComponentUpdate, if the unit has one, has answered (answer)
ShouldUpdate(s, i, prevProps, nextProps, nextState, answer) ==
  IF s.inst[i]._pendingForceUpdate THEN TRUE
  ELSE IF "shouldComponentUpdate" \in Hooks(TypeOf(s, i)) THEN answer
  ELSE IF s.inst[i]._compositeType = CompositeTypes.PureClass
  THEN ~shallowEqual(prevProps, nextProps)
         \/ ~shallowEqual(s.inst[i].state, nextState)
  ELSE TRUE

\* history only: updateComponent has returned; the event holds the instance
\* and its rendered child as the call found them (in s0) and as it leaves
\* them (in s), whether it went on to _performComponentUpdate, and the
\* element and context it was called with (an instance whose mount failed
\* has no rendered child)
UpdateEnd(s0, i, shouldUpdate, nextParentElement, nextUnmaskedContext, s) ==
  IF ~Ok(s) THEN s
  ELSE Logged(s, <<"updated", i, shouldUpdate, s0.inst[i], s.inst[i],
                   nextParentElement, nextUnmaskedContext,
                   IF s0.inst[i]._renderedComponent = 0 THEN [kind |-> "none"]
                   ELSE s0.inst[s0.inst[i]._renderedComponent],
                   IF s0.inst[i]._renderedComponent = 0 THEN [kind |-> "none"]
                   ELSE s.inst[s0.inst[i]._renderedComponent]>>)

\* faulty variant: an update that does not render leaves the state as it was
updateComponent_stale(s0, i, prevParentElement, nextParentElement, prevUnmaskedContext, nextUnmaskedContext) ==
  LET type == TypeOf(s0, i)
      willReceive == \/ s0.inst[i]._context # nextUnmaskedContext
                     \/ prevParentElement.id # nextParentElement.id
      prevProps == prevParentElement.props
      nextProps == nextParentElement.props
      \* history only: was there anything for this update to do
      tag == IF \/ willReceive
                \/ s0.inst[i]._pendingStateQueue # <<>>
                \/ s0.inst[i]._pendingForceUpdate
             THEN "work" ELSE "same"
  IN \* inst is null: reading a hook from it is a TypeError
     IF ~s0.inst[i]._instance
     THEN Logged([s0 EXCEPT !.err = "TypeError"], <<"TypeError", i>>)
     ELSE
     Then(IF willReceive /\ "componentWillReceiveProps" \in Hooks(type)
          THEN invokeHook(Logged(s0, <<"updateComponent", i, tag, willReceive>>),
                          i, "componentWillReceiveProps")
          ELSE Logged(s0, <<"updateComponent", i, tag, willReceive>>),
        LAMBDA s1 :
     Let(_processPendingState(s1, i, nextProps, emptyObject), LAMBDA s2 :
     Then(IF ~s2.inst[i]._pendingForceUpdate
             /\ "shouldComponentUpdate" \in Hooks(type)
          THEN invokeHook(s2, i, "shouldComponentUpdate")
          ELSE s2,
        LAMBDA s3 :
     IF ShouldUpdate(s2, i, prevProps, nextProps, s2.val,
                     s2.script.scu)
     THEN UpdateEnd(s0, i, TRUE, nextParentElement, nextUnmaskedContext,
            _performComponentUpdate(
              [s3 EXCEPT !.inst[i]._updateBatchNumber = Null,
                         !.inst[i]._pendingForceUpdate = FALSE], i,
              nextParentElement, s2.val, nextUnmaskedContext))
     ELSE UpdateEnd(s0, i, FALSE, nextParentElement, nextUnmaskedContext,
            [s3 EXCEPT !.inst[i]._updateBatchNumber = Null,
                       !.inst[i]._currentElement = nextParentElement,
                       !.inst[i]._context = nextUnmaskedContext,
                       !.inst[i].props = nextProps]))))

\* faulty variant: a new context alone does not count as new props
updateComponent_elementOnly(s0, i, prevParentElement, nextParentElement, prevUnmaskedContext, nextUnmaskedContext) ==
  LET type == TypeOf(s0, i)
      willReceive == prevParentElement.id # nextParentElement.id
      prevProps == prevParentElement.props
      nextProps == nextParentElement.props
      \* history only: was there anything for this update to do
      tag == IF \/ willReceive
                \/ s0.inst[i]._pendingStateQueue # <<>>
                \/ s0.inst[i]._pendingForceUpdate
             THEN "work" ELSE "same"
  IN \* inst is null: reading a hook from it is a TypeError
     IF ~s0.inst[i]._instance
     THEN Logged([s0 EXCEPT !.err = "TypeError"], <<"TypeError", i>>)
     ELSE
     Then(IF willReceive /\ "componentWillReceiveProps" \in Hooks(type)
          THEN invokeHook(Logged(s0, <<"updateComponent", i, tag, willReceive>>),
                          i, "componentWillReceiveProps")
          ELSE Logged(s0, <<"updateComponent", i, tag, willReceive>>),
        LAMBDA s1 :
     Let(_processPendingState(s1, i, nextProps, emptyObject), LAMBDA s2 :
     Then(IF ~s2.inst[i]._pendingForceUpdate
             /\ "shouldComponentUpdate" \in Hooks(type)
          THEN invokeHook(s2, i, "shouldComponentUpdate")
          ELSE s2,
        LAMBDA s3 :
     IF ShouldUpdate(s2, i, prevProps, nextProps, s2.val,
                     s2.script.scu)
     THEN UpdateEnd(s0, i, TRUE, nextParentElement, nextUnmaskedContext,
            _performComponentUpdate(
              [s3 EXCEPT !.inst[i]._updateBatchNumber = Null,
                         !.inst[i]._pendingForceUpdate = FALSE], i,
              nextParentElement, s2.val, nextUnmaskedContext))
     ELSE UpdateEnd(s0, i, FALSE, nextParentElement, nextUnmaskedContext,
            [s3 EXCEPT !.inst[i]._updateBatchNumber = Null,
                       !.inst[i]._currentElement = nextParentElement,
                       !.inst[i]._context = nextUnmaskedContext,
                       !.inst[i].props = nextProps,
                       !.inst[i].state = s2.val]))))

updateComponent(s0, i, prevParentElement, nextParentElement, prevUnmaskedContext, nextUnmaskedContext) ==
  LET type == TypeOf(s0, i)
      willReceive == \/ s0.inst[i]._context # nextUnmaskedContext
                     \/ prevParentElement.id # nextParentElement.id
      prevProps == prevParentElement.props
      nextProps == nextParentElement.props
      \* history only: was there anything for this update to do
      tag == IF \/ willReceive
                \/ s0.inst[i]._pendingStateQueue # <<>>
                \/ s0.inst[i]._pendingForceUpdate
             THEN "work" ELSE "same"
  IN \* inst is null: reading a hook from it is a TypeError
     IF ~s0.inst[i]._instance
     THEN Logged([s0 EXCEPT !.err = "TypeError"], <<"TypeError", i>>)
     ELSE
     Then(IF willReceive /\ "componentWillReceiveProps" \in Hooks(type)
          THEN invokeHook(Logged(s0, <<"updateComponent", i, tag, willReceive>>),
                          i, "componentWillReceiveProps")
          ELSE Logged(s0, <<"updateComponent", i, tag, willReceive>>),
        LAMBDA s1 :
     Let(_processPendingState(s1, i, nextProps, emptyObject), LAMBDA s2 :
     Then(IF ~s2.inst[i]._pendingForceUpdate
             /\ "shouldComponentUpdate" \in Hooks(type)
          THEN invokeHook(s2, i, "shouldComponentUpdate")
          ELSE s2,
        LAMBDA s3 :
     IF ShouldUpdate(s2, i, prevProps, nextProps, s2.val,
                     s2.script.scu)
     THEN UpdateEnd(s0, i, TRUE, nextParentElement, nextUnmaskedContext,
            _performComponentUpdate(
              [s3 EXCEPT !.inst[i]._updateBatchNumber = Null,
                         !.inst[i]._pendingForceUpdate = FALSE], i,
              nextParentElement, s2.val, nextUnmaskedContext))
     ELSE UpdateEnd(s0, i, FALSE, nextParentElement, nextUnmaskedContext,
            [s3 EXCEPT !.inst[i]._updateBatchNumber = Null,
                       !.inst[i]._currentElement = nextParentElement,
                       !.inst[i]._context = nextUnmaskedContext,
                       !.inst[i].props = nextProps,
                       !.inst[i].state = s2.val]))))

_performComponentUpdate(s, i, nextElement, nextState, unmaskedContext) ==
  Then(IF "componentWillUpdate" \in Hooks(TypeOf(s, i))
       THEN invokeHook(s, i, "componentWillUpdate")
       ELSE s,
     LAMBDA s1 :
  Then(_updateRenderedComponent(
         [s1 EXCEPT !.inst[i]._currentElement = nextElement,
                    !.inst[i]._context = unmaskedContext,
                    !.inst[i].props = nextElement.props,
                    !.inst[i].state = nextState], i, unmaskedContext),
     LAMBDA s3 :
  IF "componentDidUpdate" \in Hooks(TypeOf(s, i))
  THEN [s3 EXCEPT !.reactMountReady =
          CallbackQueue_enqueue(@, Callback("componentDidUpdate", i))]
  ELSE s3))

\* faulty variant: mounts the new child before it unmounts the old one
_updateRenderedComponent_mountFirst(s, i, context) ==
  LET prevComponentInstance == s.inst[i]._renderedComponent
      prevRenderedElement == s.inst[prevComponentInstance]._currentElement
  IN IF prevComponentInstance = 0
     THEN Logged([s EXCEPT !.err = "TypeError"], <<"TypeError", i>>)
     ELSE
     Then(_renderValidatedComponent(s, i), LAMBDA s1 :
     IF shouldUpdateReactComponent(prevRenderedElement, s1.ret)
     THEN ReactReconciler_receiveComponent(s1, prevComponentInstance, s1.ret,
                                           _processChildContext(s1, i, context))
     ELSE
       Let(NewInstance(s1), LAMBDA child :
       Then(ReactReconciler_mountComponent(
              [instantiateReactComponent(s1, s1.ret)
                 EXCEPT !.inst[i]._renderedComponent = child],
              child, _processChildContext(s1, i, context)),
          LAMBDA s2 :
       Then(ReactReconciler_unmountComponent(s2, prevComponentInstance, FALSE),
          LAMBDA s4 :
       Logged(s4, <<"replaceNodeWithMarkup", prevComponentInstance, child,
                    s.inst[prevComponentInstance]._renderedComponent # 0>>)))))

\* faulty variant: replaces the child whatever its type and key
_updateRenderedComponent_replaceAlways(s, i, context) ==
  LET prevComponentInstance == s.inst[i]._renderedComponent
  IN IF prevComponentInstance = 0
     THEN Logged([s EXCEPT !.err = "TypeError"], <<"TypeError", i>>)
     ELSE
     Then(_renderValidatedComponent(s, i), LAMBDA s1 :
     Then(ReactReconciler_unmountComponent(s1, prevComponentInstance, FALSE),
        LAMBDA s2 :
     Let(NewInstance(s2), LAMBDA child :
     Then(ReactReconciler_mountComponent(
            [instantiateReactComponent(s2, s1.ret)
               EXCEPT !.inst[i]._renderedComponent = child],
            child, _processChildContext(s2, i, context)),
        LAMBDA s4 :
     Logged(s4, <<"replaceNodeWithMarkup", prevComponentInstance, child,
                  s.inst[prevComponentInstance]._renderedComponent # 0>>)))))

\* the last field of the replaceNodeWithMarkup event is history: whether the
\* old child had a rendered component of its own, that is, had been mounted
\* to the end
_updateRenderedComponent(s, i, context) ==
  LET prevComponentInstance == s.inst[i]._renderedComponent
      prevRenderedElement == s.inst[prevComponentInstance]._currentElement
  IN \* prevComponentInstance is null: reading its element is a TypeError
     IF prevComponentInstance = 0
     THEN Logged([s EXCEPT !.err = "TypeError"], <<"TypeError", i>>)
     ELSE
     Then(_renderValidatedComponent(s, i), LAMBDA s1 :
     IF shouldUpdateReactComponent(prevRenderedElement, s1.ret)
     THEN ReactReconciler_receiveComponent(s1, prevComponentInstance, s1.ret,
                                           _processChildContext(s1, i, context))
     ELSE
       Then(ReactReconciler_unmountComponent(s1, prevComponentInstance, FALSE),
          LAMBDA s2 :
       Let(NewInstance(s2), LAMBDA child :
       Then(ReactReconciler_mountComponent(
              [instantiateReactComponent(s2, s1.ret)
                 EXCEPT !.inst[i]._renderedComponent = child],
              child, _processChildContext(s2, i, context)),
          LAMBDA s4 :
       Logged(s4, <<"replaceNodeWithMarkup", prevComponentInstance, child,
                    s.inst[prevComponentInstance]._renderedComponent # 0>>)))))

-----------------------------------------------------------------------------
(* ReactUpdates: one pass of the flush loop *)

\* faulty variant: the operands of the subtraction swapped
mountOrderComparator_swapped(s, c1, c2) ==
  s.inst[c2]._mountOrder - s.inst[c1]._mountOrder

mountOrderComparator(s, c1, c2) == s.inst[c1]._mountOrder - s.inst[c2]._mountOrder

RECURSIVE Insert(_, _, _)
Insert(s, sorted, c) ==
  IF sorted = <<>> THEN <<c>>
  ELSE IF mountOrderComparator(s, c, Head(sorted)) < 0 THEN <<c>> \o sorted
  ELSE <<Head(sorted)>> \o Insert(s, Tail(sorted), c)

\* dirtyComponents.sort(mountOrderComparator)
RECURSIVE Sort(_, _)
Sort(s, components) ==
  IF components = <<>> THEN <<>>
  ELSE Insert(s, Sort(s, SubSeq(components, 1, Len(components) - 1)),
              components[Len(components)])

\* queue.notifyAll() on the queue of mount-ready hooks
notifyAll(s) == CallAll([s EXCEPT !.reactMountReady = <<>>], s.reactMountReady)

ReactReconciler_performUpdateIfNecessary(s, i, batchNumber) ==
  performUpdateIfNecessary(s, i)

\* component.getPublicInstance() paired with each callback
RECURSIVE EnqueueCallbacks(_, _, _)
EnqueueCallbacks(queue, callbacks, context) ==
  IF callbacks = <<>> THEN queue
  ELSE EnqueueCallbacks(
         CallbackQueue_enqueue(queue, [Head(callbacks) EXCEPT !.ctx = context]),
         Tail(callbacks), context)

\* faulty variant: leaves the callbacks it collects on the instance
RECURSIVE runBatchedUpdatesLoop_keep(_, _, _)
runBatchedUpdatesLoop_keep(s, len, i) ==
  IF i >= len THEN Logged(s, <<"windowDone", len,
                          [j \in 1..Len(s.inst) |-> Len(s.inst[j]._pendingCallbacks)]>>)
  ELSE LET component == s.dirtyComponents[i + 1]
           callbacks == s.inst[component]._pendingCallbacks
       IN Let(ReactReconciler_performUpdateIfNecessary(
                Logged(s, <<"performUpdateIfNecessary", component, Len(callbacks)>>),
                component, s.updateBatchNumber),
            LAMBDA s2 :
          IF ~Ok(s2)
          THEN [Logged(s2, <<"threw", component>>) EXCEPT !.failedAt = i]
          ELSE runBatchedUpdatesLoop_keep(
                 [s2 EXCEPT !.callbackQueue =
                    EnqueueCallbacks(@, callbacks,
                                     getPublicInstance(s2, component))],
                 len, i + 1))

\* faulty variant: hands the callbacks to the queue before it reconciles
RECURSIVE runBatchedUpdatesLoop_early(_, _, _)
runBatchedUpdatesLoop_early(s, len, i) ==
  IF i >= len THEN Logged(s, <<"windowDone", len,
                          [j \in 1..Len(s.inst) |-> Len(s.inst[j]._pendingCallbacks)]>>)
  ELSE LET component == s.dirtyComponents[i + 1]
           callbacks == s.inst[component]._pendingCallbacks
       IN Let(ReactReconciler_performUpdateIfNecessary(
                Logged([s EXCEPT !.inst[component]._pendingCallbacks = <<>>,
                                 !.callbackQueue =
                                    EnqueueCallbacks(@, callbacks,
                                                     getPublicInstance(s, component))],
                       <<"performUpdateIfNecessary", component, Len(callbacks)>>),
                component, s.updateBatchNumber),
            LAMBDA s2 :
          IF ~Ok(s2)
          THEN [Logged(s2, <<"threw", component>>) EXCEPT !.failedAt = i]
          ELSE runBatchedUpdatesLoop_early(s2, len, i + 1))

\* the for loop of runBatchedUpdates from index i (0-based) on
\* (the windowDone event is history: the loop has ended without a throw)
RECURSIVE runBatchedUpdatesLoop(_, _, _)
runBatchedUpdatesLoop(s, len, i) ==
  IF i >= len THEN Logged(s, <<"windowDone", len,
                          [j \in 1..Len(s.inst) |-> Len(s.inst[j]._pendingCallbacks)]>>)
  ELSE LET component == s.dirtyComponents[i + 1]
           callbacks == s.inst[component]._pendingCallbacks
       IN Let(ReactReconciler_performUpdateIfNecessary(
                Logged([s EXCEPT !.inst[component]._pendingCallbacks = <<>>],
                       <<"performUpdateIfNecessary", component, Len(callbacks)>>),
                component, s.updateBatchNumber),
            LAMBDA s2 :
          IF ~Ok(s2)
          THEN [Logged(s2, <<"threw", component>>) EXCEPT !.failedAt = i]
          ELSE runBatchedUpdatesLoop(
                 [s2 EXCEPT !.callbackQueue =
                    EnqueueCallbacks(@, callbacks,
                                     getPublicInstance(s2, component))],
                 len, i + 1))

runBatchedUpdates(s, len) ==
  runBatchedUpdatesLoop([s EXCEPT !.dirtyComponents = Sort(s, @),
                                  !.updateBatchNumber = @ + 1], len, 0)

\* reconcileTransaction.perform(runBatchedUpdates, null, transaction): the
\* queue of mount-ready hooks is reset before and notified after, also when
\* the pass threw (an error of the hooks is then dropped)
ReactReconcileTransaction_perform(s, len) ==
  Let(runBatchedUpdates([s EXCEPT !.reactMountReady = <<>>], len), LAMBDA s1 :
  Let(notifyAll([s1 EXCEPT !.err = NoErr]), LAMBDA s2 :
  IF Ok(s1) THEN s2 ELSE [s2 EXCEPT !.err = s1.err]))

-----------------------------------------------------------------------------
(* flushBatchedUpdates: one frame per invocation that has not returned *)

\* window and failedAt are history: the sorted window of the pass, and the
\* index (from 0) of the component whose reconciliation threw, if one did.
\* after belongs to the call that started the outermost invocation: the
\* instance whose callback that call enqueues once its first enqueueUpdate
\* has returned (0: none).
Frame(pc, len, queue, thrown, window, failedAt) ==
  [pc |-> pc, dirtyComponentsLength |-> len, callbackQueue |-> queue,
   thrown |-> thrown, window |-> window, failedAt |-> failedAt, after |-> 0]

FlushEntry == Frame("loop", 0, <<>>, NoErr, <<>>, Absent)

Top == frames[Len(frames)]

SetTop(f) == [frames EXCEPT ![Len(frames)] = f]

Depth == Len(frames)

\* An error leaves the top invocation of flushBatchedUpdates.  Its caller is
\* NESTED_UPDATES.close of the invocation below, whose transaction keeps the
\* first error and goes on closing, or the batching strategy, which resets
\* its flag and lets the error (or the one its callback threw) go on.
Unwind(error) ==
  IF Len(frames) = 1
  THEN /\ frames' = <<>>
       /\ mode' = "idle"
       /\ isBatchingUpdates' = FALSE
       /\ script' = script
       /\ lastError' = IF lastError # NoErr THEN lastError ELSE error
  ELSE LET below == frames[Len(frames) - 1]
       IN /\ frames' = [SubSeq(frames, 1, Len(frames) - 1)
                          EXCEPT ![Len(frames) - 1] =
                            [below EXCEPT !.thrown =
                                IF @ = NoErr THEN error ELSE @]]
          /\ mode' = mode
          /\ isBatchingUpdates' = isBatchingUpdates
          /\ script' = script
          /\ lastError' = lastError

Keep(s) ==
  /\ inst' = s.inst
  /\ dirtyComponents' = s.dirtyComponents
  /\ updateBatchNumber' = s.updateBatchNumber
  /\ asapCallbackQueue' = s.asapCallbackQueue
  /\ asapEnqueued' = s.asapEnqueued
  /\ nextMountID' = s.nextMountID
  /\ reactMountReady' = s.reactMountReady
  /\ budget' = s.budget
  /\ log' = s.log

\* history: how many callbacks each instance has pending
PendingCallbacks == [i \in 1..Len(inst) |-> Len(inst[i]._pendingCallbacks)]

\* the method of the transaction has left the machine in state s
Performed(s) ==
  /\ Commit([s EXCEPT !.err = NoErr])
  /\ frames' = SetTop([Frame("nclose", Len(dirtyComponents), s.callbackQueue,
                             s.err, Sort(Cur, dirtyComponents), s.failedAt)
                         EXCEPT !.after = Top.after])

\* transaction.perform(runBatchedUpdates, null, transaction) up to the
\* method's return: both wrappers initialize, then the pass runs
TransactionPerform ==
  /\ mode = "flush"
  /\ Top.pc = "loop"
  /\ dirtyComponents # <<>>
  /\ Performed(ReactReconcileTransaction_perform(
                 Logged([Cur EXCEPT !.callbackQueue = CallbackQueue_reset(<<>>)],
                        <<"runBatchedUpdates", Depth, PendingCallbacks,
                          Sort(Cur, dirtyComponents)>>),
                 Len(dirtyComponents)))
  /\ UNCHANGED <<mode, container, calls, lastError>>

\* faulty variant: flushes again whether or not updates were enqueued
NestedUpdatesClose_always ==
  /\ mode = "flush"
  /\ Top.pc = "nclose"
  /\ dirtyComponents' = SubSeq(dirtyComponents, Top.dirtyComponentsLength + 1,
                               Len(dirtyComponents))
  /\ frames' = Append(SetTop([Top EXCEPT !.pc = "uclose"]), FlushEntry)
  /\ log' = Append(log, <<"flushBatchedUpdates", Depth + 1>>)
  /\ UNCHANGED <<inst, updateBatchNumber, asapCallbackQueue, asapEnqueued,
                 isBatchingUpdates, nextMountID, reactMountReady, mode,
                 container, calls, budget, script, lastError>>

\* faulty variant: forgets the updates enqueued during the pass
NestedUpdatesClose_forget ==
  /\ mode = "flush"
  /\ Top.pc = "nclose"
  /\ dirtyComponents' = <<>>
  /\ frames' = SetTop([Top EXCEPT !.pc = "uclose"])
  /\ UNCHANGED <<inst, updateBatchNumber, asapCallbackQueue, asapEnqueued,
                 isBatchingUpdates, nextMountID, reactMountReady, mode,
                 container, calls, budget, script, lastError, log>>

\* faulty variant: throws the error of the method on without closing
\* UPDATE_QUEUEING
NestedUpdatesClose_rethrow ==
  /\ mode = "flush"
  /\ Top.pc = "nclose"
  /\ IF Top.thrown # NoErr
     THEN /\ Keep(Logged(Cur, <<"throw", Depth>>))
          /\ Unwind(Top.thrown)
     ELSE /\ dirtyComponents' = <<>>
          /\ frames' = SetTop([Top EXCEPT !.pc = "uclose"])
          /\ UNCHANGED <<inst, updateBatchNumber, asapCallbackQueue,
                         asapEnqueued, isBatchingUpdates, nextMountID,
                         reactMountReady, mode, budget, script, lastError, log>>
  /\ UNCHANGED <<container, calls>>

\* faulty variant: leaves the updates enqueued during the pass to the next
\* iteration of the loop
NestedUpdatesClose_defer ==
  /\ mode = "flush"
  /\ Top.pc = "nclose"
  /\ dirtyComponents' = SubSeq(dirtyComponents, Top.dirtyComponentsLength + 1,
                               Len(dirtyComponents))
  /\ frames' = SetTop([Top EXCEPT !.pc = "uclose"])
  /\ UNCHANGED <<inst, updateBatchNumber, asapCallbackQueue, asapEnqueued,
                 isBatchingUpdates, nextMountID, reactMountReady, mode,
                 container, calls, budget, script, lastError, log>>

\* NESTED_UPDATES.close
NestedUpdatesClose ==
  /\ mode = "flush"
  /\ Top.pc = "nclose"
  /\ IF Top.dirtyComponentsLength # Len(dirtyComponents)
     THEN /\ dirtyComponents' = SubSeq(dirtyComponents,
                                       Top.dirtyComponentsLength + 1,
                                       Len(dirtyComponents))
          /\ frames' = Append(SetTop([Top EXCEPT !.pc = "uclose"]), FlushEntry)
          /\ log' = Append(log, <<"flushBatchedUpdates", Depth + 1>>)
     ELSE /\ dirtyComponents' = <<>>
          /\ frames' = SetTop([Top EXCEPT !.pc = "uclose"])
          /\ log' = log
  /\ UNCHANGED <<inst, updateBatchNumber, asapCallbackQueue, asapEnqueued,
                 isBatchingUpdates, nextMountID, reactMountReady, mode,
                 container, calls, budget, script, lastError>>

\* a queue has been notified, leaving the machine in state s: an error
\* thrown before (thrown) or by a callback leaves flushBatchedUpdates, else
\* the loop goes on
Notified(s, thrown) ==
  LET error == IF thrown # NoErr THEN thrown ELSE s.err
  IN /\ Keep(IF error # NoErr THEN Logged(s, <<"throw", Depth>>) ELSE s)
     /\ IF error # NoErr
        THEN Unwind(error)
        ELSE /\ frames' = SetTop([FlushEntry EXCEPT !.pc =
                                    IF s.asapEnqueued /\ Top.pc = "uclose"
                                    THEN "asap" ELSE "loop",
                                    !.after = Top.after])
             /\ UNCHANGED <<mode, isBatchingUpdates, script, lastError>>

\* UPDATE_QUEUEING.close, and the end of transaction.perform: the first
\* error of the method or of a wrapper's close is thrown on
UpdateQueueingClose ==
  /\ mode = "flush"
  /\ Top.pc = "uclose"
  /\ Notified(CallAll(Cur, Top.callbackQueue), Top.thrown)
  /\ UNCHANGED <<container, calls>>

\* faulty variant: releases the queue the callbacks have enqueued on
AsapDrain_release ==
  /\ mode = "flush"
  /\ \/ Top.pc = "asap"
     \/ Top.pc = "loop" /\ dirtyComponents = <<>>
  /\ asapEnqueued
  /\ Notified([CallAll(Logged([Cur EXCEPT !.asapEnqueued = FALSE,
                                          !.asapCallbackQueue = <<>>],
                              <<"asapDrain", Depth>>),
                       asapCallbackQueue)
                 EXCEPT !.asapCallbackQueue = <<>>], NoErr)
  /\ UNCHANGED <<container, calls>>

\* if (asapEnqueued) { ... queue.notifyAll() ... }
AsapDrain ==
  /\ mode = "flush"
  /\ \/ Top.pc = "asap"
     \/ Top.pc = "loop" /\ dirtyComponents = <<>>
  /\ asapEnqueued
  /\ Notified(CallAll(Logged([Cur EXCEPT !.asapEnqueued = FALSE,
                                         !.asapCallbackQueue = <<>>],
                             <<"asapDrain", Depth>>),
                      asapCallbackQueue), NoErr)
  /\ UNCHANGED <<container, calls>>

\* the outermost invocation was started by the first enqueueUpdate of a call
\* that goes on to enqueue a callback on an instance that is still mounted
CallbackFollows ==
  Len(frames) = 1 /\ Top.after # 0 /\ Mapped(Cur, Top.after)

\* faulty variant: the loop tests dirtyComponents.length only
FlushReturn_lengthOnly ==
  /\ mode = "flush"
  /\ Top.pc = "loop"
  /\ dirtyComponents = <<>>
  /\ ~CallbackFollows
  /\ frames' = SubSeq(frames, 1, Len(frames) - 1)
  /\ log' = Append(log, <<"return", Depth>>)
  /\ IF Len(frames) = 1
     THEN mode' = "idle" /\ isBatchingUpdates' = FALSE
     ELSE UNCHANGED <<mode, isBatchingUpdates>>
  /\ UNCHANGED <<inst, dirtyComponents, updateBatchNumber, asapCallbackQueue,
                 asapEnqueued, nextMountID, reactMountReady, container, calls,
                 budget, script, lastError>>

\* the loop test fails: flushBatchedUpdates returns, to NESTED_UPDATES.close
\* of the invocation below or to the batching strategy, which resets its flag
FlushReturn ==
  /\ mode = "flush"
  /\ Top.pc = "loop"
  /\ dirtyComponents = <<>>
  /\ ~asapEnqueued
  /\ ~CallbackFollows
  /\ frames' = SubSeq(frames, 1, Len(frames) - 1)
  /\ log' = Append(log, <<"return", Depth>>)
  /\ IF Len(frames) = 1
     THEN mode' = "idle" /\ isBatchingUpdates' = FALSE
     ELSE UNCHANGED <<mode, isBatchingUpdates>>
  /\ UNCHANGED <<inst, dirtyComponents, updateBatchNumber, asapCallbackQueue,
                 asapEnqueued, nextMountID, reactMountReady, container, calls,
                 budget, script, lastError>>

\* The flush that the first enqueueUpdate of setState(partial, callback) or
\* of render(element, container, callback) opened outside a batch returns:
\* the batching strategy resets its flag, enqueueUpdate returns, and the call
\* goes on to enqueue its callback, for which enqueueUpdate opens a batch of
\* its own.
FlushReturnToCall ==
  /\ mode = "flush"
  /\ Top.pc = "loop"
  /\ dirtyComponents = <<>>
  /\ ~asapEnqueued
  /\ CallbackFollows
  /\ LET target == Top.after
         ctx == IF TypeOf(Cur, target) = "TopLevelWrapper" THEN 0 ELSE target
     IN Commit(enqueueCallback(
                 [Logged(Cur, <<"return", Depth>>)
                    EXCEPT !.isBatchingUpdates = FALSE],
                 target, Callback("callback", ctx)))
  /\ frames' = <<FlushEntry>>
  /\ UNCHANGED <<mode, container, calls, lastError>>

-----------------------------------------------------------------------------
(* What the user code of a run does: the hook of one type misbehaves, in    *)
(* one way, as long as the budget lasts; scu is what the                    *)
(* shouldComponentUpdate of Outer returns.                                  *)

Script(hook, type, act) ==
  [hook |-> hook, type |-> type, act |-> act, scu |-> TRUE]

\* user code that misbehaves during updates
UpdateScripts ==
  {NoScript}
    \cup {Script(h, ty, a) :
            h \in {"componentWillReceiveProps", "componentWillUpdate",
                   "componentDidUpdate", "callback"},
            ty \in {"Outer", "Inner"}, a \in {"setState", "setStateOther"}}
    \cup {Script(h, "Outer", "asap") :
            h \in {"componentWillUpdate", "componentDidUpdate", "asap"}}
    \cup {Script("asap", "Inner", "setState")}
    \cup {Script("render", ty, "throw") : ty \in UserTypes}
    \cup {Script(h, "Outer", "throw") : h \in {"componentDidUpdate", "callback", "asap"}}
    \cup {Script("componentWillUnmount", "Inner", "throw"),
          Script("componentWillUpdate", "Outer", "setStateOtherThrow"),
          [NoScript EXCEPT !.scu = FALSE],
          [Script("render", "Inner", "throw") EXCEPT !.scu = FALSE]}

\* user code that misbehaves while mounting
MountScripts ==
  {NoScript}
    \cup {Script(h, ty, a) : h \in {"componentWillMount", "componentDidMount"},
                             ty \in {"Outer", "Inner"},
                             a \in {"setState", "asap", "throw"}}
    \cup {Script("render", ty, "throw") : ty \in {"Outer", "Inner"}}
    \cup {Script("unstable_handleError", "Outer", "setState")}

-----------------------------------------------------------------------------
(* Entry points: ReactMount.render, setState / forceUpdate of a mounted     *)
(* unit, ReactUpdates.batchedUpdates and ReactUpdates.asap                  *)

\* the machine state as an outermost trigger finds it
Entry == IF mode = "idle" THEN [Cur EXCEPT !.log = <<>>] ELSE Cur

\* the mounted unit of a type, as user code holds it (0 when there is none)
Unit(type) ==
  LET found == {i \in 1..Len(inst) : inst[i].inMap /\ inst[i]._currentElement.type = type}
  IN IF found = {} THEN 0 ELSE CHOOSE i \in found : TRUE

\* mountComponentIntoNode inside batchedMountComponentIntoNode's transaction
batchedMountComponentIntoNode(s, componentInstance, context) ==
  Let(ReactReconciler_mountComponent([s EXCEPT !.reactMountReady = <<>>],
                                     componentInstance, context), LAMBDA s1 :
  Let(notifyAll([s1 EXCEPT !.err = NoErr]), LAMBDA s2 :
  IF Ok(s1) THEN s2 ELSE [s2 EXCEPT !.err = s1.err]))

\* faulty variant: mounts without opening a batch
_renderNewRootComponent_unbatched(s, nextElement, context) ==
  batchedMountComponentIntoNode(instantiateReactComponent(s, nextElement),
                                NewInstance(s), context)

_renderNewRootComponent(s, nextElement, context) ==
  LET componentInstance == NewInstance(s)
      s1 == instantiateReactComponent(s, nextElement)
  IN batchedMountComponentIntoNode(batchedUpdatesOpen(s1), componentInstance,
                                   context)

_updateRootComponent(s, prevComponent, nextElement, nextContext, callback) ==
  LET s1 == enqueueElementInternal(s, prevComponent, nextElement, nextContext)
  IN IF callback THEN enqueueCallback(s1, prevComponent, Callback("callback", 0))
     ELSE s1

\* the mount has left the machine in state s
Rendered(s) ==
  /\ Commit([s EXCEPT !.err = NoErr, !.script = script])
  /\ container' = IF Ok(s) THEN 1 ELSE 0
  /\ lastError' = s.err

\* ReactMount.render(nextElement, container) into the empty container, the
\* user code behaving as sc says while the root is mounted
RenderNewRootOf(type, sc) ==
  /\ mode = "idle"
  /\ container = 0
  /\ inst = <<>>
  /\ LET nextElement == ReactElement(type, 0, 0, 1, "none")
         nextWrappedElement == ReactElement("TopLevelWrapper", 0, 0, 1, nextElement)
     IN Rendered(_renderNewRootComponent([Entry EXCEPT !.script = sc],
                                         nextWrappedElement, emptyObject))
  /\ mode' = "flush"
  /\ frames' = <<FlushEntry>>
  /\ UNCHANGED calls

RenderNewRoot(sc) == RenderNewRootOf("Outer", sc)

\* a call made by the application: outside a batch the flush follows it,
\* inside it is queued; after is the instance the call enqueues a callback
\* on when the flush has returned (0: none)
CallThen(s, after) ==
  /\ calls < MaxCalls
  /\ calls' = calls + 1
  /\ container # 0
  /\ mode \in {"idle", "batch"}
  /\ Commit(s)
  /\ IF mode = "idle"
     THEN /\ mode' = "flush"
          /\ frames' = <<[FlushEntry EXCEPT !.after = after]>>
          /\ lastError' = NoErr
     ELSE UNCHANGED <<mode, frames, lastError>>
  /\ UNCHANGED container

Call(s) == CallThen(s, 0)

\* ReactMount.render(nextElement, container, callback) on the mounted root,
\* with the element of the last render or a new one of the same type
RenderUpdate(sameElement, callback) ==
  /\ container # 0
  /\ LET prevComponent == container
         prevElement == inst[prevComponent]._currentElement.child
         nextElement == IF sameElement THEN prevElement
                        ELSE [prevElement EXCEPT !.id = NewElementId(prevElement)]
         nextWrappedElement ==
           ReactElement("TopLevelWrapper", 0, 0,
                        NewElementId(inst[prevComponent]._currentElement),
                        nextElement)
     IN /\ shouldUpdateReactComponent(prevElement, nextElement)
        /\ IF callback /\ mode = "idle"
           THEN CallThen(_updateRootComponent(Entry, prevComponent,
                                              nextWrappedElement, emptyObject,
                                              FALSE), prevComponent)
           ELSE Call(_updateRootComponent(Entry, prevComponent,
                                          nextWrappedElement, emptyObject,
                                          callback))

\* this.setState(partialState, callback)
SetState(i, payload, callback) ==
  /\ i # 0
  /\ LET s1 == enqueueSetState(Entry, i, payload)
     IN IF callback /\ mode = "idle" THEN CallThen(s1, i)
        ELSE Call(IF callback THEN enqueueCallback(s1, i, Callback("callback", i))
                  ELSE s1)

\* this.forceUpdate()
ForceUpdate(i) == i # 0 /\ Call(enqueueForceUpdate(Entry, i))

\* Identity of a new context object, told apart from the one the root holds
NewContextId(held) == IF held = 1 THEN 2 ELSE 1

\* ReactMount.renderSubtreeIntoContainer(parentComponent, nextElement,
\* container) on the mounted root, for a parent with getChildContext: its
\* _processChildContext returns a new context object at every call
RenderSubtreeUpdate(sameElement) ==
  /\ container # 0
  /\ LET prevComponent == container
         prevElement == inst[prevComponent]._currentElement.child
         nextElement == IF sameElement THEN prevElement
                        ELSE [prevElement EXCEPT !.id = NewElementId(prevElement)]
         nextWrappedElement ==
           ReactElement("TopLevelWrapper", 0, 0,
                        NewElementId(inst[prevComponent]._currentElement),
                        nextElement)
         nextContext == NewContextId(inst[prevComponent]._context)
     IN /\ shouldUpdateReactComponent(prevElement, nextElement)
        /\ Call(_updateRootComponent(Entry, prevComponent, nextWrappedElement,
                                     nextContext, FALSE))

\* ReactUpdates.asap(callback, context) from inside a batch
Asap(i) == i # 0 /\ mode = "batch" /\ Call(asap(Cur, Callback("asap", i)))

\* ReactUpdates.asap(callback, context) while no batch is open
\* (batchingStrategy.isBatchingUpdates is false): nothing flushes
AsapOutsideBatch(i) ==
  /\ i # 0
  /\ mode = "idle"
  /\ ~isBatchingUpdates
  /\ container # 0
  /\ calls < MaxCalls
  /\ calls' = calls + 1
  /\ LET s == asap([Cur EXCEPT !.log =
                      <<<<"asapOutsideBatch", Len(asapCallbackQueue)>>>>],
                   Callback("asap", i))
     IN Commit(s) /\ lastError' = s.err
  /\ UNCHANGED <<mode, frames, container>>

\* ReactUpdates.batchedUpdates(callback): the callback is entered
BatchedUpdates ==
  /\ mode = "idle"
  /\ container # 0
  /\ calls < MaxCalls
  /\ mode' = "batch"
  /\ isBatchingUpdates' = TRUE
  /\ log' = <<>>
  /\ lastError' = NoErr
  /\ UNCHANGED <<inst, dirtyComponents, updateBatchNumber, asapCallbackQueue,
                 asapEnqueued, nextMountID, reactMountReady, frames, container,
                 calls, budget, script>>

\* the callback returns: the batching strategy flushes
BatchedUpdatesReturn ==
  /\ mode = "batch"
  /\ mode' = "flush"
  /\ frames' = <<FlushEntry>>
  /\ UNCHANGED <<inst, dirtyComponents, updateBatchNumber, asapCallbackQueue,
                 asapEnqueued, isBatchingUpdates, nextMountID, reactMountReady,
                 container, calls, budget, script, lastError, log>>

-----------------------------------------------------------------------------

Boot ==
  /\ inst = <<>>
  /\ dirtyComponents = <<>>
  /\ updateBatchNumber = 0
  /\ asapCallbackQueue = <<>>
  /\ asapEnqueued = FALSE
  /\ isBatchingUpdates = FALSE
  /\ nextMountID = 1
  /\ reactMountReady = <<>>
  /\ frames = <<>>
  /\ mode = "idle"
  /\ container = 0
  /\ calls = 0
  /\ budget = MaxBudget
  /\ lastError = NoErr
  /\ log = <<>>

Init == Boot /\ script \in UpdateScripts

Flush ==
  \/ TransactionPerform
  \/ NestedUpdatesClose
  \/ UpdateQueueingClose
  \/ AsapDrain
  \/ FlushReturn
  \/ FlushReturnToCall

\* the calls the application makes on the mounted tree
Calls ==
  \/ SetState(Unit("Outer"), Toggle, FALSE)
  \/ \E cb \in BOOLEAN : SetState(Unit("Outer"), Partial("n", 1), cb)
  \/ \E cb \in BOOLEAN : SetState(Unit("Inner"), Toggle, cb)
  \/ ForceUpdate(Unit("Inner"))
  \/ RenderUpdate(TRUE, FALSE)
  \/ RenderUpdate(FALSE, TRUE)
  \/ Asap(Unit("Outer"))

Next ==
  \/ RenderNewRoot(NoScript)
  \/ BatchedUpdates
  \/ BatchedUpdatesReturn
  \/ Calls
  \/ Flush

Spec == Init /\ [][Next]_vars

\* the application also calls asap outside a batch
NextAsap ==
  \/ Next
  \/ AsapOutsideBatch(Unit("Outer"))

SpecAsap == Init /\ [][NextAsap]_vars

\* _processPendingState on its own: an instance with any state, any pending
\* state queue and either value of the replace flag (a replaceState entry is
\* a state object and the first of its queue)
MergeStates == [Keys -> {Absent, 0, 1}]

MergePayloads ==
  {Toggle, Increment, Partial("n", 0), Partial("n", 1), Partial("sw", 0)}

MergeQueues == UNION {[1..m -> MergePayloads] : m \in 0..MaxQueue}

InitMerge ==
  /\ \E existing \in MergeStates, queue \in MergeQueues, replace \in BOOLEAN :
       /\ replace => (queue # <<>> /\ queue[1].fn = "none")
       /\ inst = <<[construct(ReactElement("Outer", 0, 0, 1, "none"))
                     EXCEPT !._instance = TRUE,
                            !.state = existing,
                            !._pendingStateQueue = queue,
                            !._pendingReplaceState = replace]>>
  /\ dirtyComponents = <<>>
  /\ updateBatchNumber = 0
  /\ asapCallbackQueue = <<>>
  /\ asapEnqueued = FALSE
  /\ isBatchingUpdates = FALSE
  /\ nextMountID = 1
  /\ reactMountReady = <<>>
  /\ frames = <<>>
  /\ mode = "idle"
  /\ container = 0
  /\ calls = 0
  /\ budget = MaxBudget
  /\ script = NoScript
  /\ lastError = NoErr
  /\ log = <<>>

\* inst.state = this._processPendingState(inst.props, inst.context); the
\* event keeps the arguments and the result
ProcessPendingState ==
  /\ log = <<>>
  /\ LET s == MergePendingState(Cur, 1)
     IN /\ inst' = s.inst
        /\ log' = <<<<"_processPendingState", inst[1].state,
                      inst[1]._pendingStateQueue, inst[1]._pendingReplaceState,
                      s.val, s.valOf>>>>
  /\ UNCHANGED <<dirtyComponents, updateBatchNumber, asapCallbackQueue,
                 asapEnqueued, isBatchingUpdates, nextMountID, reactMountReady,
                 frames, mode, container, calls, budget, script, lastError>>

NextMerge == ProcessPendingState

SpecMerge == InitMerge /\ [][NextMerge]_vars

-----------------------------------------------------------------------------
(* CallbackQueue on its own, field by field: _callbacks and _contexts are   *)
(* null or an array each.  (The reconciler above sees a queue as the        *)
(* sequence of its pairs, which is all it depends on.)                      *)

NullArray == [null |-> TRUE, items |-> <<>>]

Array(items) == [null |-> FALSE, items |-> items]

\* an index of an array that was never assigned reads as undefined
Hole == "undefined"

\* array.length = len: cuts the array, or lengthens it with holes
SetLength(items, len) ==
  [k \in 1..len |-> IF k <= Len(items) THEN items[k] ELSE Hole]

\* new CallbackQueue(arg)
CallbackQueue(arg) ==
  [_callbacks |-> NullArray, _contexts |-> NullArray, _arg |-> arg]

enqueue(queue, callback, context) ==
  [queue EXCEPT !._callbacks = Array(Append(@.items, callback)),
                !._contexts = Array(Append(@.items, context))]

checkpoint(queue) ==
  IF ~queue._callbacks.null THEN Len(queue._callbacks.items) ELSE 0

\* faulty variant: cuts to one pair less
rollback_short(queue, len) ==
  IF ~queue._callbacks.null /\ ~queue._contexts.null
  THEN [queue EXCEPT !._callbacks.items = SetLength(@, IF len > 0 THEN len - 1 ELSE 0),
                     !._contexts.items = SetLength(@, IF len > 0 THEN len - 1 ELSE 0)]
  ELSE queue

rollback(queue, len) ==
  IF ~queue._callbacks.null /\ ~queue._contexts.null
  THEN [queue EXCEPT !._callbacks.items = SetLength(@, len),
                     !._contexts.items = SetLength(@, len)]
  ELSE queue

reset(queue) ==
  [queue EXCEPT !._callbacks = NullArray, !._contexts = NullArray]

\* the pairs a queue holds, in order
Pairs(queue) ==
  [k \in 1..Len(queue._callbacks.items) |->
     <<queue._callbacks.items[k], queue._contexts.items[k]>>]

\* The callbacks handed to the queue: "f" returns at once, "g" enqueues "f"
\* with its own receiver on the queue that is calling it.
QueueCallbacks == {"f", "g"}
QueueContexts == {"x", "y"}
QueueArgs == {"a", "b"}

\* callbacks[i].call(contexts[i], arg), on the state c of the call of
\* notifyAll: the queue and the events so far
Invoke(c, callback, receiver, arg) ==
  LET called == [c EXCEPT !.log = Append(@, <<"call", callback, receiver, arg>>)]
  IN IF callback = "g"
     THEN [called EXCEPT !.queue = enqueue(@, "f", receiver),
                         !.log = Append(@, <<"enqueue", "f", receiver>>)]
     ELSE called

\* faulty variant: goes through the arrays from their end
RECURSIVE notifyAllLoop_backwards(_, _, _, _, _)
notifyAllLoop_backwards(c, callbacks, contexts, arg, i) ==
  IF i > Len(callbacks) THEN c
  ELSE LET k == Len(callbacks) + 1 - i
       IN IF callbacks[k] = Hole THEN [c EXCEPT !.err = "TypeError"]
          ELSE notifyAllLoop_backwards(Invoke(c, callbacks[k], contexts[k], arg),
                                       callbacks, contexts, arg, i + 1)

\* the for loop of notifyAll from index i on; calling a hole is a TypeError
RECURSIVE notifyAllLoop(_, _, _, _, _)
notifyAllLoop(c, callbacks, contexts, arg, i) ==
  IF i > Len(callbacks) THEN c
  ELSE IF callbacks[i] = Hole THEN [c EXCEPT !.err = "TypeError"]
  ELSE notifyAllLoop(Invoke(c, callbacks[i], contexts[i], arg),
                     callbacks, contexts, arg, i + 1)

\* faulty variant: detaches the arrays after the loop
CallbackQueue_notifyAll_late(c) ==
  LET callbacks == c.queue._callbacks
      contexts == c.queue._contexts
  IN IF ~callbacks.null /\ ~contexts.null
     THEN [notifyAllLoop(c, callbacks.items, contexts.items, c.queue._arg, 1)
             EXCEPT !.queue._callbacks = NullArray,
                    !.queue._contexts = NullArray]
     ELSE c

CallbackQueue_notifyAll(c) ==
  LET callbacks == c.queue._callbacks
      contexts == c.queue._contexts
  IN IF ~callbacks.null /\ ~contexts.null
     THEN notifyAllLoop([c EXCEPT !.queue._callbacks = NullArray,
                                  !.queue._contexts = NullArray],
                        callbacks.items, contexts.items, c.queue._arg, 1)
     ELSE c

\* In this specification reactMountReady is the queue, log the calls made on
\* it and what they did, calls their number.
InitQueue ==
  /\ inst = <<>>
  /\ dirtyComponents = <<>>
  /\ updateBatchNumber = 0
  /\ asapCallbackQueue = <<>>
  /\ asapEnqueued = FALSE
  /\ isBatchingUpdates = FALSE
  /\ nextMountID = 1
  /\ reactMountReady \in {CallbackQueue(arg) : arg \in QueueArgs}
  /\ frames = <<>>
  /\ mode = "idle"
  /\ container = 0
  /\ calls = 0
  /\ budget = MaxBudget
  /\ script = NoScript
  /\ lastError = NoErr
  /\ log = <<>>

\* a call on the queue has left it as queue, with the events of events
QueueCall(queue, events, error) ==
  /\ calls < MaxOps
  /\ calls' = calls + 1
  /\ reactMountReady' = queue
  /\ log' = events
  /\ lastError' = error
  /\ UNCHANGED <<inst, dirtyComponents, updateBatchNumber, asapCallbackQueue,
                 asapEnqueued, isBatchingUpdates, nextMountID, frames, mode,
                 container, budget, script>>

Enqueue(callback, context) ==
  QueueCall(enqueue(reactMountReady, callback, context),
            Append(log, <<"enqueue", callback, context>>), NoErr)

\* the notifyAll event holds the pairs queued at the call, the notifyAllEnd
\* event the pairs queued when it returns (or throws)
NotifyAll ==
  LET c == CallbackQueue_notifyAll(
             [queue |-> reactMountReady,
              log |-> Append(log, <<"notifyAll", Pairs(reactMountReady)>>),
              err |-> NoErr])
  IN QueueCall(c.queue,
               Append(c.log, <<"notifyAllEnd", Pairs(c.queue), c.err>>), c.err)

\* the checkpoint event holds the number returned and the pairs queued
Checkpoint ==
  QueueCall(reactMountReady,
            Append(log, <<"checkpoint", checkpoint(reactMountReady),
                          Pairs(reactMountReady)>>), NoErr)

\* rollback with the number an earlier checkpoint returned; the event holds
\* that number, the place of the checkpoint and the pairs left
Rollback ==
  \E j \in 1..Len(log) :
    /\ log[j][1] = "checkpoint"
    /\ LET queue == rollback(reactMountReady, log[j][2])
       IN QueueCall(queue, Append(log, <<"rollback", log[j][2], j, Pairs(queue)>>),
                    NoErr)

Reset == QueueCall(reset(reactMountReady), Append(log, <<"reset">>), NoErr)

NextQueue ==
  \/ \E callback \in QueueCallbacks, context \in QueueContexts :
       /\ callback = "g" => context = "x"
       /\ Enqueue(callback, context)
  \/ NotifyAll
  \/ Checkpoint
  \/ Rollback
  \/ Reset

SpecQueue == InitQueue /\ [][NextQueue]_vars

\* the root elements the application renders into the container
RootElements == {<<"Outer", 0>>, <<"Outer", 1>>, <<"Inner", 0>>}

\* faulty variant: leaves the previous root in place
unmountComponentAtNode_skip(s, prevComponent) == s

\* ReactMount.unmountComponentAtNode(container) on a container that holds
\* prevComponent: unmountComponentFromNode inside batchedUpdates
unmountComponentAtNode(s, prevComponent) ==
  ReactReconciler_unmountComponent(batchedUpdatesOpen(s), prevComponent, FALSE)

\* ReactMount.render(nextElement, container) on a container that holds a
\* root, called outside a batch with nothing left to flush: the root is
\* updated in place when type and key match, else unmounted and a new root
\* mounted.  The first event is history: the wrapper found in the container,
\* the branch taken, the instances there were, the public instance the
\* update branch returns, and the two elements compared.
RenderIntoContainer(root) ==
  /\ mode = "idle"
  /\ container # 0
  /\ dirtyComponents = <<>>
  /\ ~asapEnqueued
  /\ LET prevComponent == container
         prevElement == inst[prevComponent]._currentElement.child
         nextElement == ReactElement(root[1], root[2], 0,
                                     NewElementId(prevElement), "none")
         nextWrappedElement ==
           ReactElement("TopLevelWrapper", 0, 0,
                        NewElementId(inst[prevComponent]._currentElement),
                        nextElement)
         publicInst == getPublicInstance(Cur, inst[prevComponent]._renderedComponent)
         Called(branch) ==
           Logged(Entry, <<"ReactMount.render", prevComponent, branch,
                           Len(inst), publicInst, prevElement, nextElement>>)
     IN IF shouldUpdateReactComponent(prevElement, nextElement)
        THEN Call(_updateRootComponent(Called("update"), prevComponent,
                                       nextWrappedElement, emptyObject, FALSE))
        ELSE /\ calls < MaxCalls
             /\ calls' = calls + 1
             /\ mode' = "flush"
             /\ frames' = <<FlushEntry>>
             /\ Let(unmountComponentAtNode(Called("replace"), prevComponent),
                    LAMBDA s1 :
                  IF ~Ok(s1)
                  THEN /\ Commit([s1 EXCEPT !.err = NoErr])
                       /\ container' = container
                       /\ lastError' = s1.err
                  ELSE Let(_renderNewRootComponent(
                             [s1 EXCEPT !.isBatchingUpdates = FALSE],
                             nextWrappedElement, emptyObject),
                         LAMBDA s2 :
                       /\ Commit([s2 EXCEPT !.err = NoErr])
                       /\ container' = IF Ok(s2) THEN NewInstance(s1) ELSE 0
                       /\ lastError' = s2.err))

\* the mount, with user code that misbehaves while mounting
InitMount == Boot /\ script \in MountScripts

NextMount ==
  \/ RenderNewRoot(script)
  \/ \E cb \in BOOLEAN : SetState(Unit("Outer"), Toggle, cb)
  \/ \E root \in RootElements : RenderIntoContainer(root)
  \/ Flush

SpecMount == InitMount /\ [][NextMount]_vars

\* the mount of a tree with lists, whose children are mounted one after the
\* other inside the same transaction
TreeRoots == {"ul", "Guard", "ol"}

TreeScripts ==
  {NoScript}
    \cup {Script("render", ty, "throw") : ty \in {"Inner", "Other", "Guard"}}
    \cup {Script("componentDidMount", ty, a) :
            ty \in {"Inner", "Guard"}, a \in {"setState", "asap", "throw"}}
    \cup {Script("componentWillMount", "Inner", a) : a \in {"setState", "throw"}}
    \cup {Script("componentWillUnmount", "Inner", "throw")}

InitTree == Boot /\ script \in TreeScripts

NextTree ==
  \/ \E root \in TreeRoots : RenderNewRootOf(root, script)
  \/ \E type \in {"Inner", "Guard"}, cb \in BOOLEAN :
       SetState(Unit(type), Toggle, cb)
  \/ Flush

SpecTree == InitTree /\ [][NextTree]_vars

\* updates of a mounted tree by every trigger there is: state, force flag,
\* new or same root element, new or same context
DecisionScripts ==
  {NoScript, [NoScript EXCEPT !.scu = FALSE],
   Script("componentDidUpdate", "Outer", "asap")}
    \cup {Script("componentWillReceiveProps", ty, "setState") :
            ty \in {"Outer", "Inner"}}
    \cup {[Script("componentWillReceiveProps", "Outer", "setState")
            EXCEPT !.scu = FALSE]}

InitUpdate == Boot /\ script \in DecisionScripts

NextUpdate ==
  \/ RenderNewRoot(NoScript)
  \/ BatchedUpdates
  \/ BatchedUpdatesReturn
  \/ \E type \in {"Outer", "Inner"} : ForceUpdate(Unit(type))
  \/ \E type \in {"Outer", "Inner"}, cb \in BOOLEAN :
       SetState(Unit(type), Toggle, cb)
  \/ \E sameElement \in BOOLEAN : RenderUpdate(sameElement, FALSE)
  \/ \E sameElement \in BOOLEAN : RenderSubtreeUpdate(sameElement)
  \/ Flush

SpecUpdate == InitUpdate /\ [][NextUpdate]_vars

\* user code that enqueues updates from the hooks of a pass and never throws
InitPass ==
  /\ Boot
  /\ script \in
       {NoScript, [NoScript EXCEPT !.scu = FALSE]}
         \cup {Script(h, ty, a) :
                 h \in {"componentWillReceiveProps", "componentWillUpdate",
                        "componentDidUpdate"},
                 ty \in {"Outer", "Inner"}, a \in {"setState", "setStateOther"}}

SpecPass == InitPass /\ [][Next]_vars

\* user code that enqueues updates while a pass runs or from a post-commit
\* callback, or throws there
InitDrain ==
  /\ Boot
  /\ script \in
       {NoScript}
         \cup {Script(h, ty, a) :
                 h \in {"componentWillUpdate", "componentDidUpdate", "callback"},
                 ty \in {"Outer", "Inner"}, a \in {"setState", "setStateOther"}}
         \cup {Script("render", ty, "throw") : ty \in UserTypes}
         \cup {Script("callback", "Outer", "throw"),
               Script("componentWillUpdate", "Outer", "setStateOtherThrow"),
               [Script("render", "Inner", "throw") EXCEPT !.scu = FALSE]}

SpecDrain == InitDrain /\ [][Next]_vars

\* user code that throws in a hook that updateComponent calls before it
\* clears _updateBatchNumber, or later in the update
InitStamp ==
  /\ Boot
  /\ script \in
       {NoScript, [NoScript EXCEPT !.scu = FALSE]}
         \cup {Script(h, "Outer", "throw") :
                 h \in {"componentWillReceiveProps", "shouldComponentUpdate",
                        "componentWillUpdate", "render"}}
         \cup {Script("componentWillUpdate", "Outer", "setStateOtherThrow")}

SpecStamp == InitStamp /\ [][Next]_vars

\* unmountComponent called on any instance of a mounted tree, safely or not,
\* in any order and more than once
UnmountComponentCall(i, safely) ==
  /\ mode \in {"idle", "batch"}
  /\ container # 0
  /\ calls < MaxUnmounts
  /\ calls' = calls + 1
  /\ LET s == ReactReconciler_unmountComponent(Entry, i, safely)
     IN /\ Commit([s EXCEPT !.err = NoErr])
        /\ lastError' = s.err
  /\ UNCHANGED <<mode, frames, container>>

UnmountScripts ==
  {NoScript, Script("componentDidMount", "Inner", "asap")}
    \cup {Script("componentWillUnmount", ty, "throw") : ty \in {"Outer", "Inner"}}

InitUnmount == Boot /\ script \in UnmountScripts

NextUnmount ==
  \/ RenderNewRoot(script)
  \/ BatchedUpdates
  \/ BatchedUpdatesReturn
  \/ \E cb \in BOOLEAN : SetState(Unit("Inner"), Toggle, cb)
  \/ ForceUpdate(Unit("Outer"))
  \/ \E i \in 1..Len(inst), safely \in BOOLEAN : UnmountComponentCall(i, safely)
  \/ Flush

SpecUnmount == InitUnmount /\ [][NextUnmount]_vars

-----------------------------------------------------------------------------
(* Reading the history: log holds the events since the last outermost       *)
(* trigger; a pass is the stretch that starts at a runBatchedUpdates event. *)

IsPassStart(k) == log[k][1] = "runBatchedUpdates"

PassEnd(k) ==
  IF \E j \in (k + 1)..Len(log) : IsPassStart(j)
  THEN CHOOSE j \in (k + 1)..Len(log) :
         IsPassStart(j) /\ \A m \in (k + 1)..(j - 1) : ~IsPassStart(m)
  ELSE Len(log) + 1

Segment(k) == (k + 1)..(PassEnd(k) - 1)

Is(k, name, i) == log[k][1] = name /\ log[k][2] = i

Count(positions, name, i) == Cardinality({j \in positions : Is(j, name, i)})

\* user code enqueued an update during pass k, before a render of the pass
Reentrant(k) ==
  LET end == PassEnd(k)
  IN \E j \in (k + 1)..(end - 1) :
       /\ log[j][1] = "enqueueUpdate"
       /\ \E r \in (j + 1)..(end - 1) : log[r][1] = "render"

RECURSIVE IsAncestor(_, _)
IsAncestor(a, b) ==
  LET c == inst[a]._renderedComponent
  IN c # 0 /\ (c = b \/ IsAncestor(c, b))

\* no user code has thrown in this run
NoErrors ==
  script.act \in {"throw", "setStateOtherThrow"} => budget = MaxBudget

Returned == log # <<>> /\ log[Len(log)][1] = "return"

-----------------------------------------------------------------------------

\* C1: a pass invokes the render of an instance at most once when the
\* enqueueUpdate calls were issued before the pass began (none during the
\* pass ahead of a render), however many times the instance appears in
\* dirtyComponents.
C1_RenderOncePerPass ==
  \A k \in 1..Len(log) :
    (IsPassStart(k) /\ ~Reentrant(k)) =>
      LET end == PassEnd(k)
      IN \A p \in (k + 1)..(end - 1) :
           log[p][1] = "render" =>
             \A q \in (p + 1)..(end - 1) : ~Is(q, "render", log[p][2])

\* an instance enqueued twice before the pass, visited twice by the pass and
\* rendered once
C1_Witness ==
  \E k \in 1..Len(log) :
    /\ IsPassStart(k)
    /\ ~Reentrant(k)
    /\ \E i \in 1..Len(inst) :
         /\ Count(1..(k - 1), "enqueueUpdate", i) >= 2
         /\ Count(Segment(k), "performUpdateIfNecessary", i) >= 2
         /\ Count(Segment(k), "render", i) = 1

\* C2: in a pass, performUpdateIfNecessary is never invoked on an instance
\* after it was invoked on one of its descendants: the ancestor comes first,
\* whatever the order of the enqueues.
C2_AncestorFirst ==
  \A k \in 1..Len(log) :
    IsPassStart(k) =>
      LET end == PassEnd(k)
      IN \A p \in (k + 1)..(end - 1) :
           log[p][1] = "performUpdateIfNecessary" =>
             \A q \in (p + 1)..(end - 1) :
               log[q][1] = "performUpdateIfNecessary"
                 => ~IsAncestor(log[q][2], log[p][2])

\* the descendant was enqueued first and the ancestor reconciled first
C2_Witness ==
  \E k \in 1..Len(log) :
    /\ IsPassStart(k)
    /\ \E p, q \in Segment(k), e1, e2 \in 1..(k - 1) :
         /\ p < q /\ e1 < e2
         /\ log[p][1] = "performUpdateIfNecessary"
         /\ log[q][1] = "performUpdateIfNecessary"
         /\ IsAncestor(log[p][2], log[q][2])
         /\ Is(e1, "enqueueUpdate", log[q][2])
         /\ Is(e2, "enqueueUpdate", log[p][2])

\* C3: when no user code has thrown, the outermost flush returns with no
\* mounted instance holding a pending element, pending state or force flag.
C3_NoPendingWorkLeft ==
  (mode = "idle" /\ NoErrors) =>
    \A i \in 1..Len(inst) :
      inst[i].inMap =>
        /\ inst[i]._pendingElement.id = 0
        /\ inst[i]._pendingStateQueue = <<>>
        /\ ~inst[i]._pendingForceUpdate

\* a flush has returned after reconciling an instance that was enqueued
\* with work
C3_Witness ==
  /\ mode = "idle"
  /\ NoErrors
  /\ Returned
  /\ \E i \in 1..Len(inst), e, u \in 1..Len(log) :
       /\ e < u
       /\ inst[i].inMap
       /\ Is(e, "enqueueUpdate", i)
       /\ Is(u, "updateComponent", i) /\ log[u][3] = "work"

\* C4: flushBatchedUpdates returns only with dirtyComponents empty and
\* asapEnqueued false; and its loop makes progress: a pass is followed by
\* another one only if an update was enqueued since it began, a drain of the
\* asap queue by another one only if asap was called in between, so that
\* the flush ends once user code stops enqueuing.
C4_FlushDrains ==
  /\ Returned => (dirtyComponents = <<>> /\ ~asapEnqueued)
  /\ \A k \in 1..Len(log) :
       (IsPassStart(k) /\ PassEnd(k) <= Len(log)) =>
         \E j \in Segment(k) : log[j][1] = "enqueueUpdate"
  /\ \A k \in 1..Len(log) :
       log[k][1] = "asapDrain" =>
         \A m \in (k + 1)..Len(log) :
           log[m][1] = "asapDrain" =>
             \E j \in (k + 1)..(m - 1) : log[j][1] = "asapEnqueue"

\* the outermost flush has returned after user code enqueued an update
\* during a pass and the nested flush drained it
C4_Witness ==
  /\ mode = "idle"
  /\ Returned
  /\ \E j \in 1..Len(log) : Is(j, "flushBatchedUpdates", 2)
  /\ \E j \in 1..Len(log) : log[j][1] = "asapDrain"
  /\ dirtyComponents = <<>>

\* C5 as stated: flushBatchedUpdates is never entered while another
\* invocation of it is active, so that at most one flush transaction is open.
C5_OneFlushAtATime == Len(frames) <= 1

\* C5, amended: flushBatchedUpdates is entered again only by
\* NESTED_UPDATES.close, at the end of a pass during which an update was
\* enqueued: every invocation but the innermost one is between the two close
\* steps of its transaction, and none starts while runBatchedUpdates runs.
C5_NestedFlushFromClose ==
  /\ \A f \in 1..(Len(frames) - 1) : frames[f].pc = "uclose"
  /\ \A j \in 1..Len(log) :
       log[j][1] = "flushBatchedUpdates" =>
         \E k \in 1..(j - 1) :
           /\ IsPassStart(k)
           /\ log[k][2] = log[j][2] - 1
           /\ PassEnd(k) > j
           /\ \E e \in (k + 1)..(j - 1) : log[e][1] = "enqueueUpdate"

\* the nested invocation has its own transaction open while the transaction
\* of the outer one is still closing
C5_Witness ==
  /\ Len(frames) = 2
  /\ frames[1].pc = "uclose"
  /\ frames[2].pc = "nclose"

-----------------------------------------------------------------------------
(* A pass whose loop threw: k is the start of the pass, t the event of the  *)
(* throw among the events of the pass, and the transaction has closed when  *)
(* the error leaves the invocation of flushBatchedUpdates the pass belongs  *)
(* to.                                                                      *)

Threw(k, t) == log[t][1] = "threw"

\* the passes of the log
Passes == {k \in 1..Len(log) : IsPassStart(k)}

IsCloseOf(k, c) == c > k /\ log[c][1] = "throw" /\ log[c][2] = log[k][2]

HasClosed(k) == \E c \in 1..Len(log) : IsCloseOf(k, c)

CloseOf(k) ==
  CHOOSE c \in 1..Len(log) :
    IsCloseOf(k, c) /\ \A m \in 1..(c - 1) : ~IsCloseOf(k, m)

\* the instances the pass reconciled before the one that threw
Before(k, t) ==
  {log[p][2] : p \in {q \in (k + 1)..(t - 1) :
                        log[q][1] = "performUpdateIfNecessary"}} \ {log[t][2]}

\* the instances of the window the pass did not reach
Unreached(k, t) ==
  {log[k][4][j] : j \in 1..Len(log[k][4])} \ (Before(k, t) \cup {log[t][2]})

\* the nested invocation made by NESTED_UPDATES.close has ended at p
IsNestedEnd(k, p) ==
  log[p][1] \in {"return", "throw"} /\ log[p][2] = log[k][2] + 1

\* where UPDATE_QUEUEING.close of the pass begins
CloseStart(k, t) ==
  LET ends == {p \in t..(CloseOf(k) - 1) : IsNestedEnd(k, p)}
  IN IF ends = {} THEN t ELSE CHOOSE p \in ends : \A q \in ends : q <= p

\* callbacks of instance i the close of the transaction invoked
ByClose(k, t, i) == Count((CloseStart(k, t) + 1)..(CloseOf(k) - 1), "callback", i)

\* callbacks of instance i invoked between the throw and the end of the close
ByFlush(k, t, i) == Count((t + 1)..(CloseOf(k) - 1), "callback", i)

ReconciledAfter(t, i) ==
  \E p \in (t + 1)..Len(log) :
    log[p][1] \in {"performUpdateIfNecessary", "updateComponent"} /\ log[p][2] = i

\* C6 as stated: after a pass threw and the error has left the flush, the
\* instances of the window that the pass had not reached have not been
\* reconciled by the flush and are still in dirtyComponents.
C6_LeftPending ==
  \A k \in Passes : \A t \in Segment(k) :
    (Threw(k, t) /\ mode = "idle") =>
      \A i \in Unreached(k, t) :
        inst[i].inMap => (~ReconciledAfter(t, i)
                            /\ \E d \in 1..Len(dirtyComponents) : dirtyComponents[d] = i)

-----------------------------------------------------------------------------

\* the render of the unit with the error-recovery hook throws on the first
\* attempt of the mount
OwnRenderThrows ==
  /\ script.hook = "render" /\ script.type = "Outer" /\ script.act = "throw"
  /\ \E j \in 1..Len(log) : log[j][1] = "unstable_handleError"

\* C8: when the render of a unit with unstable_handleError throws on the
\* first attempt of its mount, the hook is invoked exactly once, render is
\* attempted a second time, and the unit ends mounted with a rendered child.
C8_HandleErrorRecovers ==
  OwnRenderThrows =>
    \E i \in 1..Len(inst) :
      /\ TypeOf(Cur, i) = "Outer"
      /\ Count(1..Len(log), "unstable_handleError", i) = 1
      /\ Count(1..Len(log), "render", i) = 2
      /\ inst[i]._renderedComponent # 0
      /\ inst[i].inMap
      /\ container # 0
      /\ lastError = NoErr

-----------------------------------------------------------------------------

\* an update of an instance with the element and the context it has, no
\* pending state and no force flag
IsSameUpdate(u) == log[u][1] = "updateComponent" /\ log[u][3] = "same"

\* the update that begins at event u has invoked render
RendersIn(u) ==
  \E r \in (u + 1)..Len(log) :
    /\ Is(r, "render", log[u][2])
    /\ \A m \in (u + 1)..(r - 1) :
         ~(log[m][1] = "updateComponent" /\ log[m][2] = log[u][2])

\* C10 as stated: an update with the same element and context, no pending
\* state and no force flag invokes no render.
C10_SameElementNoRender ==
  \A u \in 1..Len(log) : IsSameUpdate(u) => ~RendersIn(u)

\* a hook of the update that begins at event u threw before the render
AbortedIn(u) ==
  \E e \in (u + 1)..Len(log) :
    /\ log[e][1] = "threw"
    /\ \A m \in (u + 1)..(e - 1) :
         ~(log[m][1] \in {"updateComponent", "render"} /\ log[m][2] = log[u][2])

\* C10, amended: such an update invokes no render when the unit's
\* shouldComponentUpdate returns false, and invokes render otherwise (unless
\* componentWillUpdate throws first).
C10_SameElementRenders ==
  \A u \in 1..Len(log) :
    IsSameUpdate(u) =>
      IF "shouldComponentUpdate" \in Hooks(TypeOf(Cur, log[u][2])) /\ ~script.scu
      THEN ~RendersIn(u)
      ELSE RendersIn(u) \/ AbortedIn(u)

\* both cases have happened: the update rendered, or shouldComponentUpdate
\* returned false and it did not
C10_Witness ==
  \E u \in 1..Len(log) :
    /\ IsSameUpdate(u)
    /\ "shouldComponentUpdate" \in Hooks(TypeOf(Cur, log[u][2]))
    /\ script.scu
    /\ RendersIn(u)

-----------------------------------------------------------------------------

\* at event h the componentWillUpdate of an Inner that is being reconciled
\* for its own trigger (performUpdateIfNecessary, not through its parent)
\* enqueues an update of the Outer that rendered it
OwnHookEnqueues(h) ==
  /\ h < Len(log)
  /\ log[h][1] = "componentWillUpdate"
  /\ log[h + 1][1] = "enqueueUpdate"
  /\ TypeOf(Cur, log[h][2]) = "Inner"
  /\ TypeOf(Cur, log[h + 1][2]) = "Outer"
  /\ \E p \in 1..(h - 1) :
       /\ Is(p, "performUpdateIfNecessary", log[h][2])
       /\ \A m \in (p + 1)..(h - 1) :
            log[m][1] \notin {"performUpdateIfNecessary", "receiveComponent"}

\* C11 as stated: when Inner's componentWillUpdate, run for Inner's own
\* update, triggers an update of Outer, the flush renders Outer, then
\* reconciles Inner through receiveComponent, and Inner's render runs once
\* from the hook on.
C11_OuterThenInnerOnce ==
  \A h \in 1..Len(log) :
    (OwnHookEnqueues(h) /\ mode = "idle" /\ Returned) =>
      LET i == log[h][2]
          o == log[h + 1][2]
      IN /\ \E ro \in (h + 1)..Len(log) :
              /\ Is(ro, "render", o)
              /\ \E c \in (ro + 1)..Len(log) : Is(c, "receiveComponent", i)
         /\ Count((h + 1)..Len(log), "render", i) = 1

\* C11, amended: Inner's own update goes on first (its render runs before
\* anything of Outer); the nested flush then reconciles Outer, whose render
\* hands a new element to the same Inner instance through receiveComponent
\* (Inner renders a second time unless its shouldUpdate says no); Inner stays
\* the rendered component of Outer and is updated after the hook only through
\* receiveComponent.
C11_InnerThenOuter ==
  \A h \in 1..Len(log) :
    (OwnHookEnqueues(h) /\ mode = "idle" /\ Returned) =>
      LET i == log[h][2]
          o == log[h + 1][2]
      IN /\ \E r \in (h + 1)..Len(log) :
              /\ Is(r, "render", i)
              /\ \A m \in (h + 1)..(r - 1) :
                   log[m][1] \notin {"render", "performUpdateIfNecessary"}
              /\ \E p \in (r + 1)..Len(log) :
                   /\ Is(p, "performUpdateIfNecessary", o)
                   /\ \E ro \in (p + 1)..Len(log) :
                        /\ Is(ro, "render", o)
                        /\ \E c \in (ro + 1)..Len(log) :
                             Is(c, "receiveComponent", i)
              /\ \A u \in (r + 1)..Len(log) :
                   Is(u, "updateComponent", i) => Is(u - 1, "receiveComponent", i)
         /\ inst[i].inMap
         /\ inst[o]._renderedComponent = i

\* the flush has returned after Inner rendered twice from the hook on: for
\* its own trigger and for the re-render of Outer
C11_Witness ==
  /\ mode = "idle"
  /\ Returned
  /\ \E h \in 1..Len(log) :
       /\ OwnHookEnqueues(h)
       /\ Count((h + 1)..Len(log), "render", log[h][2]) = 2

-----------------------------------------------------------------------------

\* asap is called at event e while the loop of pass k runs
AsapInPass(k, e) ==
  /\ IsPassStart(k)
  /\ k < e
  /\ log[e][1] = "asapEnqueue"
  /\ \A m \in (k + 1)..e :
       log[m][1] \notin {"runBatchedUpdates", "windowDone", "threw"}

\* C12: a callback passed to asap while the loop of a pass runs is not
\* invoked before that loop has ended, having reconciled every instance of
\* its window; and when the outermost flush has returned, every callback
\* passed to asap since the trigger has been invoked.
C12_AsapAfterWindow ==
  /\ \A k \in 1..Len(log) :
       IsPassStart(k) =>
         \A e \in (k + 1)..Len(log) :
           AsapInPass(k, e) =>
             \A a \in (e + 1)..Len(log) :
               log[a][1] = "asap" =>
                 \E d \in (e + 1)..(a - 1) :
                   /\ log[d][1] = "windowDone"
                   /\ \A m \in (e + 1)..(d - 1) : log[m][1] # "runBatchedUpdates"
                   /\ \A j \in 1..Len(log[k][4]) :
                        \E p \in (k + 1)..(d - 1) :
                          Is(p, "performUpdateIfNecessary", log[k][4][j])
  /\ (mode = "idle" /\ Returned) =>
       \A e \in 1..Len(log) :
         log[e][1] = "asapEnqueue" =>
           \E a \in (e + 1)..Len(log) : Is(a, "asap", log[e][2])

\* the flush has returned after a hook called asap inside the loop of a pass
\* and the callback ran
C12_Witness ==
  /\ mode = "idle"
  /\ Returned
  /\ \E k, e \in 1..Len(log) :
       /\ AsapInPass(k, e)
       /\ \E a \in (e + 1)..Len(log) : Is(a, "asap", log[e][2])

-----------------------------------------------------------------------------

\* the events of a name among the first p events of the log
Upto(p, name) == {j \in 1..p : log[j][1] = name}

\* the n-th call of asap in the log
NthAsap(n) ==
  CHOOSE e \in 1..Len(log) :
    log[e][1] = "asapEnqueue" /\ Cardinality(Upto(e, "asapEnqueue")) = n

\* C13: as long as no user code has thrown, the n-th invocation of an asap
\* callback follows the n-th call of asap, with the start of a drain of the
\* asap queue in between (a callback enqueued while the queue is drained
\* waits for the next drain); and when the outermost flush has returned,
\* there were as many invocations as calls of asap and the queue is empty.
C13_AsapExactlyOnce ==
  NoErrors =>
    /\ \A a \in 1..Len(log) :
         log[a][1] = "asap" =>
           LET n == Cardinality(Upto(a, "asap"))
           IN /\ Cardinality(Upto(a, "asapEnqueue")) >= n
              /\ \E d \in (NthAsap(n) + 1)..(a - 1) : log[d][1] = "asapDrain"
    /\ (mode = "idle" /\ Returned) =>
         /\ Cardinality(Upto(Len(log), "asap"))
              = Cardinality(Upto(Len(log), "asapEnqueue"))
         /\ asapCallbackQueue = <<>>

\* the flush has returned after an asap callback, called in one drain, has
\* called asap, and the callback it passed has been invoked in a later drain
C13_Witness ==
  /\ mode = "idle"
  /\ Returned
  /\ NoErrors
  /\ \E a, e, d, b \in 1..Len(log) :
       /\ a < e /\ e < d /\ d < b
       /\ log[a][1] = "asap"
       /\ e = a + 1
       /\ log[e][1] = "asapEnqueue"
       /\ log[d][1] = "asapDrain"
       /\ log[b][1] = "asap"

-----------------------------------------------------------------------------

\* C14: a call of asap made while no batch is open throws, and leaves the
\* asap queue and the asap flag as they were.
C14_AsapThrowsOutsideBatch ==
  (mode = "idle" /\ log # <<>> /\ log[1][1] = "asapOutsideBatch") =>
    /\ lastError # NoErr
    /\ Len(asapCallbackQueue) = log[1][2]

-----------------------------------------------------------------------------
(* The merge of the pending state queue: a _processPendingState event       *)
(* holds the state the instance had, the queue, the replace flag, the       *)
(* state returned and which object that is.                                 *)

Merged == log # <<>> /\ log[1][1] = "_processPendingState"

\* shallow merge of b on top of a
Overlay(a, b) == [k \in Keys |-> IF b[k] = Absent THEN a[k] ELSE b[k]]

\* the left fold over the entries of queue, in their order, from state acc
RECURSIVE Folded(_, _)
Folded(acc, queue) ==
  IF queue = <<>> THEN acc
  ELSE LET before == Folded(acc, SubSeq(queue, 1, Len(queue) - 1))
           entry == queue[Len(queue)]
       IN Overlay(before, IF entry.fn = "none" THEN entry.partial
                          ELSE CallUpdater(entry.fn, before, 0))

\* entry e sets key k
Sets(e, k) ==
  IF e.fn = "none" THEN e.partial[k] # Absent
  ELSE CallUpdater(e.fn, NullState, 0)[k] # Absent

\* C15: merging an empty queue returns the state object of the instance
\* itself: the same object, with the same content, whatever the state.
C15_EmptyQueueSameState ==
  (Merged /\ log[1][3] = <<>>) =>
    /\ log[1][5] = log[1][2]
    /\ log[1][6] = "inst.state"
    /\ inst[1].state = log[1][2]

\* an empty queue has been merged into a state that is not null
C15_Witness ==
  /\ Merged
  /\ log[1][3] = <<>>
  /\ log[1][2] # NullState
  /\ log[1][6] = "inst.state"

\* C16: with the replace flag set the result is the same whatever state the
\* instance had; a queue of one entry gives that entry itself, a longer one
\* the first entry with the following entries folded on top of it.
C16_ReplaceIgnoresState ==
  (Merged /\ log[1][4]) =>
    LET queue == log[1][3]
    IN /\ \A other \in MergeStates :
            _processPendingState(
              [Cur EXCEPT !.inst[1].state = other,
                          !.inst[1]._pendingStateQueue = queue,
                          !.inst[1]._pendingReplaceState = TRUE],
              1, 0, emptyObject).val = log[1][5]
       /\ Len(queue) = 1 => (log[1][5] = queue[1].partial /\ log[1][6] = "queue[0]")
       /\ Len(queue) > 1 =>
            log[1][5] = Folded(queue[1].partial, SubSeq(queue, 2, Len(queue)))
       /\ \A k \in Keys :
            (\A j \in 1..Len(queue) : ~Sets(queue[j], k)) => log[1][5][k] = Absent

\* a state with both keys set has been replaced by a queue that sets one
C16_Witness ==
  /\ Merged
  /\ log[1][4]
  /\ Len(log[1][3]) > 1
  /\ \A k \in Keys : log[1][2][k] # Absent
  /\ \E k \in Keys : log[1][5][k] = Absent

\* C17: without the replace flag the result is the left fold over the queue
\* from the state of the instance, an updater being called with the state
\* merged so far; on a key set by several entries the last plain entry wins
\* unless an updater comes after it; three increments of {n: 0} give {n: 3}.
C17_LeftFold ==
  (Merged /\ ~log[1][4] /\ log[1][3] # <<>>) =>
    LET existing == log[1][2]
        queue == log[1][3]
        val == log[1][5]
    IN /\ val = Folded(existing, queue)
       /\ log[1][6] = "new"
       /\ \A k \in Keys : \A j \in 1..Len(queue) :
            (/\ queue[j].fn = "none"
             /\ Sets(queue[j], k)
             /\ \A m \in (j + 1)..Len(queue) : ~Sets(queue[m], k))
              => val[k] = queue[j].partial[k]
       /\ (existing["n"] = 0 /\ queue = <<Increment, Increment, Increment>>)
            => val["n"] = 3

\* three increments have been merged into {n: 0}
C17_Witness ==
  /\ Merged
  /\ ~log[1][4]
  /\ log[1][2]["n"] = 0
  /\ log[1][3] = <<Increment, Increment, Increment>>
  /\ log[1][5]["n"] = 3

-----------------------------------------------------------------------------
(* Reading the calls made on a CallbackQueue *)

IsNotifyAll(p) == log[p][1] = "notifyAll"

\* where the call of notifyAll that begins at p ends
NotifyEnd(p) ==
  CHOOSE e \in (p + 1)..Len(log) :
    /\ log[e][1] = "notifyAllEnd"
    /\ \A m \in (p + 1)..(e - 1) : log[m][1] # "notifyAllEnd"

\* the events of a name inside the call of notifyAll that begins at p
Inside(p, name) == {j \in (p + 1)..(NotifyEnd(p) - 1) : log[j][1] = name}

\* the place of event j among the events of set
Rank(set, j) == Cardinality({m \in set : m <= j})

NoHoles(pairs) == \A k \in 1..Len(pairs) : pairs[k][1] # Hole

\* C18: a call of notifyAll invokes the pairs queued at the call, each once
\* and in the order of their enqueue, each with its context as receiver and
\* with the argument of the queue, and throws nothing; the queue then holds
\* only what these callbacks have enqueued, nothing when they enqueued
\* nothing; on a queue without pairs no callback is invoked and the queue
\* still has no pairs.
C18_NotifyAllInOrder ==
  \A p \in 1..Len(log) :
    (IsNotifyAll(p) /\ NoHoles(log[p][2])) =>
      LET queued == log[p][2]
          e == NotifyEnd(p)
          called == Inside(p, "call")
          enqueued == Inside(p, "enqueue")
      IN /\ Cardinality(called) = Len(queued)
         /\ \A j \in called :
              /\ log[j][2] = queued[Rank(called, j)][1]
              /\ log[j][3] = queued[Rank(called, j)][2]
              /\ log[j][4] = reactMountReady._arg
         /\ log[e][3] = NoErr
         /\ Len(log[e][2]) = Cardinality(enqueued)
         /\ queued = <<>> => (e = p + 1 /\ log[e][2] = <<>>)

\* a queue of two different pairs has been notified
C18_Witness ==
  \E p \in 1..Len(log) :
    /\ IsNotifyAll(p)
    /\ Len(log[p][2]) = 2
    /\ log[p][2][1] # log[p][2][2]
    /\ Cardinality(Inside(p, "call")) = 2

\* the call of notifyAll at p2 is the next one after the call that began at
\* p, with no rollback and no reset in between
NextNotify(p, p2) ==
  /\ IsNotifyAll(p2)
  /\ p2 > NotifyEnd(p)
  /\ \A m \in (NotifyEnd(p) + 1)..(p2 - 1) :
       log[m][1] \notin {"rollback", "reset", "notifyAll"}

\* C19: a pair enqueued by a callback that notifyAll is invoking is not
\* invoked by that call of notifyAll (which invokes what is left of the
\* pairs it began with, and no more); the pair is queued when the call
\* returns, and the next call of notifyAll invokes it.
C19_ReentrantEnqueueDeferred ==
  \A p \in 1..Len(log) :
    (IsNotifyAll(p) /\ NoHoles(log[p][2])) =>
      \A x \in Inside(p, "enqueue") :
        LET pair == <<log[x][2], log[x][3]>>
            called == Inside(p, "call")
        IN /\ Cardinality({j \in called : j > x})
                = Len(log[p][2]) - Cardinality({j \in called : j < x})
           /\ \E k \in 1..Len(log[NotifyEnd(p)][2]) :
                log[NotifyEnd(p)][2][k] = pair
           /\ \A p2 \in (p + 1)..Len(log) :
                NextNotify(p, p2) =>
                  /\ \E k \in 1..Len(log[p2][2]) : log[p2][2][k] = pair
                  /\ \E j \in Inside(p2, "call") :
                       log[j][2] = pair[1] /\ log[j][3] = pair[2]

\* a callback has enqueued a pair during notifyAll, and the next notifyAll
\* has invoked it
C19_Witness ==
  \E p, p2 \in 1..Len(log) :
    /\ IsNotifyAll(p)
    /\ NextNotify(p, p2)
    /\ \E x \in Inside(p, "enqueue") :
         \E j \in Inside(p2, "call") :
           log[j][2] = log[x][2] /\ log[j][3] = log[x][3]

\* C20 as stated: checkpoint returns the number of pairs queued, and a
\* rollback to the number an earlier checkpoint returned leaves the queue
\* with the pairs it held at that checkpoint.
C20_RollbackKeepsFirstN ==
  \A r \in 1..Len(log) :
    /\ log[r][1] = "checkpoint" => log[r][2] = Len(log[r][3])
    /\ log[r][1] = "rollback" => log[r][4] = log[log[r][3]][3]

\* between the checkpoint at c, which returned n, and event r the queue was
\* not notified, not reset and not rolled back to less than n
Untouched(c, r, n) ==
  \A m \in (c + 1)..(r - 1) :
    \/ log[m][1] \in {"enqueue", "checkpoint"}
    \/ log[m][1] = "rollback" /\ log[m][2] >= n

\* C20, amended: checkpoint returns the number of pairs queued (0 for a
\* queue nothing was enqueued on); a rollback to the number a checkpoint
\* returned, when the queue was not notified, reset or rolled back further
\* since that checkpoint, leaves exactly the pairs queued at the checkpoint, in
\* their order, and a notifyAll that follows invokes these and no other.
C20_RollbackToCheckpoint ==
  \A r \in 1..Len(log) :
    /\ log[r][1] = "checkpoint" =>
         /\ log[r][2] = Len(log[r][3])
         /\ (\A m \in 1..(r - 1) : log[m][1] # "enqueue") => log[r][2] = 0
    /\ (log[r][1] = "rollback" /\ Untouched(log[r][3], r, log[r][2])) =>
         /\ log[r][4] = log[log[r][3]][3]
         /\ Len(log[r][4]) = log[r][2]
         /\ (r < Len(log) /\ IsNotifyAll(r + 1)) =>
              /\ log[r + 1][2] = log[log[r][3]][3]
              /\ NoHoles(log[r + 1][2]) =>
                   Cardinality(Inside(r + 1, "call")) = log[r][2]

\* a rollback has removed a pair enqueued after the checkpoint and kept the
\* one enqueued before it, and notifyAll has invoked that one
C20_Witness ==
  \E r \in 1..Len(log) :
    /\ log[r][1] = "rollback"
    /\ log[r][2] = 1
    /\ Untouched(log[r][3], r, 1)
    /\ \E m \in (log[r][3] + 1)..(r - 1) : log[m][1] = "enqueue"
    /\ r < Len(log)
    /\ IsNotifyAll(r + 1)
    /\ NoHoles(log[r + 1][2])
    /\ Cardinality(Inside(r + 1, "call")) = 1

-----------------------------------------------------------------------------

\* the error of the invocation at depth f reaches its caller in this step:
\* the batching strategy's caller, or the transaction of the invocation below
Propagates(f) ==
  /\ Len(frames') = f - 1
  /\ IF f = 1 THEN mode' = "idle" /\ lastError' # NoErr
     ELSE frames'[f - 1].thrown # NoErr

\* C21: when runBatchedUpdates has thrown, the transaction of that flush
\* runs NESTED_UPDATES.close, then UPDATE_QUEUEING.close, and the error
\* leaves flushBatchedUpdates only in the step that ends UPDATE_QUEUEING.close.
C21_CloseThenThrow ==
  [][\A f \in 1..Len(frames) :
       frames[f].failedAt # Absent =>
         /\ frames[f].pc \in {"nclose", "uclose"}
         /\ frames[f].thrown # NoErr
         /\ frames[f].pc = "nclose" =>
              /\ Len(frames') >= f
              /\ frames'[f].pc = "uclose"
              /\ frames'[f].thrown = frames[f].thrown
         /\ Len(frames') >= f => frames'[f].pc = "uclose"
         /\ Len(frames') < f =>
              /\ f = Len(frames)
              /\ frames[f].pc = "uclose"
              /\ Propagates(f)]_vars

\* a pass threw after it had collected a callback; the callback was invoked
\* by UPDATE_QUEUEING.close and the error then reached the caller
C21_Witness ==
  /\ mode = "idle"
  /\ lastError # NoErr
  /\ \E t, c, e \in 1..Len(log) :
       /\ t < c /\ c < e
       /\ log[t][1] = "threw"
       /\ log[c][1] = "callback"
       /\ Is(e, "throw", 1)

-----------------------------------------------------------------------------

\* events of user code, or of an update, that belong to instance i
UpdateWork ==
  {"updateComponent", "componentWillReceiveProps", "shouldComponentUpdate",
   "componentWillUpdate", "render", "componentDidUpdate", "callback",
   "TypeError", "threw"}

\* at u instance i is unmounted; it had callbacks pending when pass k began
\* and the flush has neither visited nor updated it between the start of
\* the pass and u
UnmountedWhileDirty(k, u, i) ==
  /\ k < u
  /\ IsPassStart(k)
  /\ Is(u, "unmountComponent", i)
  /\ ~inst[i].inMap
  /\ i \in DOMAIN log[k][3]
  /\ log[k][3][i] > 0
  /\ \E d \in 1..Len(log[k][4]) : log[k][4][d] = i
  /\ \A p \in (k + 1)..(u - 1) :
       /\ ~Is(p, "performUpdateIfNecessary", i)
       /\ ~Is(p, "updateComponent", i)
       /\ ~IsPassStart(p)

\* C22: an instance that is unmounted while it is in dirtyComponents with
\* pending state and callbacks is visited by the flush without effect: from
\* the unmount on, none of its hooks, its render or its callbacks is invoked
\* and no error comes from it, and the pass visits every instance of its
\* window.
C22_UnmountedDiscarded ==
  \A k \in 1..Len(log) :
    IsPassStart(k) =>
      LET end == PassEnd(k)
      IN \A u \in (k + 1)..(end - 1) :
           log[u][1] = "unmountComponent" =>
             LET i == log[u][2]
             IN UnmountedWhileDirty(k, u, i) =>
                  /\ \A q \in (u + 1)..Len(log) :
                       log[q][1] \in UpdateWork => log[q][2] \notin {i, 0}
                  /\ inst[i]._pendingCallbacks = <<>>
                  /\ inst[i]._pendingStateQueue = <<>>
                  /\ (\E w \in (u + 1)..(end - 1) : log[w][1] = "windowDone") =>
                       \A d \in 1..Len(log[k][4]) :
                         \E p \in (k + 1)..(end - 1) :
                           Is(p, "performUpdateIfNecessary", log[k][4][d])
                  /\ (mode = "idle" /\ NoErrors) => lastError = NoErr

\* Inner was enqueued with state and a callback, Outer replaced it in the
\* same pass, the pass went on to visit Inner, and the flush has returned
C22_Witness ==
  /\ mode = "idle"
  /\ Returned
  /\ lastError = NoErr
  /\ \E k, u, p \in 1..Len(log) :
       /\ u < p
       /\ UnmountedWhileDirty(k, u, log[u][2])
       /\ Is(p, "performUpdateIfNecessary", log[u][2])
       /\ \E o \in (k + 1)..(u - 1) : log[o][1] = "render"

-----------------------------------------------------------------------------

\* the outermost invocation of flushBatchedUpdates has returned at r
IsOuterReturn(r) == Is(r, "return", 1)

\* C23: every push on dirtyComponents is made with isBatchingUpdates true.
\* An enqueueUpdate call made outside a batch opens the batch itself: the
\* pass that follows has exactly that instance, once, as its window, and
\* when the flush of that batch returns the instance has been visited by it;
\* no batch is open while the program is idle.
C23_PushOnlyInBatch ==
  /\ mode = "idle" => ~isBatchingUpdates
  /\ \A e \in 1..Len(log) :
       log[e][1] = "enqueueUpdate" =>
         /\ log[e][3]
         /\ log[e][4] =>
              /\ e = 1 \/ IsOuterReturn(e - 1)
              /\ e < Len(log) =>
                   /\ IsPassStart(e + 1)
                   /\ log[e + 1][4] = <<log[e][2]>>
              /\ \A r \in (e + 1)..Len(log) :
                   IsOuterReturn(r) =>
                     \E p \in (e + 1)..(r - 1) :
                       Is(p, "performUpdateIfNecessary", log[e][2])

\* setState was called outside a batch, its enqueueUpdate opened the batch,
\* and the flush of that batch has reconciled the instance and returned
C23_Witness ==
  /\ mode = "idle"
  /\ lastError = NoErr
  /\ Len(log) > 3
  /\ log[1][1] = "enqueueUpdate"
  /\ log[1][4]
  /\ Is(3, "performUpdateIfNecessary", log[1][2])
  /\ Is(4, "updateComponent", log[1][2])
  /\ IsOuterReturn(Len(log))

-----------------------------------------------------------------------------

\* the current trigger is a ReactMount.render call that found a root in the
\* container and took the given branch
RenderCall(branch) ==
  log # <<>> /\ log[1][1] = "ReactMount.render" /\ log[1][3] = branch

\* C24: ReactMount.render on a container that holds a root takes the update
\* branch exactly when the root element has the type and key of the next
\* one.  The update branch enqueues the next element on the wrapper that is
\* there, unmounts neither the wrapper nor the root unit, and returns the
\* root unit's public instance.  The other branch unmounts the previous
\* wrapper and its tree first: when the first instance of the new tree is
\* mounted, no instance of the previous tree has a rendered child or a node
\* any more, and nothing of the previous tree is unmounted later.
C24_UpdateOrReplace ==
  /\ log # <<>> /\ log[1][1] = "ReactMount.render" =>
       (log[1][3] = "update"
          <=> (log[1][6].type = log[1][7].type /\ log[1][6].key = log[1][7].key))
  /\ RenderCall("update") =>
       LET prev == log[1][2]
           root == log[1][5]
       IN /\ Len(log) > 1 /\ Is(2, "enqueueUpdate", prev)
          /\ container = prev
          /\ root # 0
          /\ inst[prev]._renderedComponent = root
          /\ inst[prev].inMap /\ inst[root].inMap
          /\ \A j \in 1..Len(log) :
               /\ ~Is(j, "unmountComponent", prev)
               /\ ~Is(j, "unmountComponent", root)
               /\ ~Is(j, "mountComponent", prev)
               /\ ~Is(j, "mountComponent", root)
  /\ RenderCall("replace") =>
       LET prev == log[1][2]
           old == log[1][4]
       IN /\ Len(log) > 1 /\ Is(2, "unmountComponent", prev)
          /\ container # 0 => container > old
          /\ \A m \in 1..Len(log) :
               log[m][1] = "mountComponent" =>
                 /\ log[m][2] > old
                 /\ ~inst[prev].inMap
                 /\ log[1][5] # 0 => ~inst[log[1][5]].inMap
                 /\ \A i \in 1..old :
                      /\ ~inst[i]._hostNode
                      /\ inst[i]._renderedComponent = 0
                 /\ \A u \in (m + 1)..Len(log) :
                      log[u][1] \in {"unmountComponent", "unmountHost"}
                        => log[u][2] > old

\* a first render call replaced the root (the first wrapper is unmounted and
\* another one is in the container), and a second one has updated the new
\* root in place
C24_Witness ==
  /\ mode = "idle"
  /\ Returned
  /\ lastError = NoErr
  /\ RenderCall("update")
  /\ log[1][2] > 1
  /\ container = log[1][2]
  /\ ~inst[1].inMap
  /\ inst[1]._currentElement.type = "TopLevelWrapper"
  /\ \E j \in 1..Len(log) : Is(j, "updateComponent", log[1][5])

-----------------------------------------------------------------------------

\* the current trigger is a ReactMount.render call that mounts a new root
MountCall ==
  log # <<>> /\ (log[1][1] = "mountComponent" \/ RenderCall("replace"))

\* the events of the mount: those ahead of the first pass of the flush that
\* closes the batch of the mount
MountEvents ==
  {j \in 1..Len(log) : \A k \in 1..j : ~IsPassStart(k)}

\* C25: the mount of a new root runs inside a batch.  An update that user
\* code triggers during the mount is pushed on dirtyComponents with the
\* batch already open, nothing is reconciled before the mount has ended, and
\* when the flush that ends the batch has returned every instance enqueued
\* during the mount has been visited by it and nothing is left to flush.
C25_MountIsBatched ==
  MountCall =>
    /\ \A e \in MountEvents :
         /\ log[e][1] \notin {"performUpdateIfNecessary", "updateComponent",
                               "receiveComponent"}
         /\ log[e][1] = "enqueueUpdate" =>
              /\ log[e][3] /\ ~log[e][4]
              /\ (Returned /\ NoErrors) =>
                   \E p \in (e + 1)..Len(log) :
                     Is(p, "performUpdateIfNecessary", log[e][2])
    /\ (mode = "idle" /\ NoErrors) =>
         /\ dirtyComponents = <<>>
         /\ ~isBatchingUpdates
         /\ \A i \in 1..Len(inst) :
              inst[i].inMap => inst[i]._pendingStateQueue = <<>>

\* componentDidMount called setState during the mount; the update was
\* reconciled by the flush after the mount, and the flush has returned
C25_Witness ==
  /\ mode = "idle"
  /\ Returned
  /\ log[1][1] = "mountComponent"
  /\ \E e \in MountEvents, u \in 1..Len(log) :
       /\ e > 1 /\ e < u
       /\ log[e][1] = "enqueueUpdate"
       /\ Is(e - 1, "componentDidMount", log[e][2])
       /\ Is(u, "updateComponent", log[e][2])
       /\ log[u][3] = "work"

-----------------------------------------------------------------------------

\* the composite instances that mountComponent has been called on
Stamped == {i \in 1..Len(inst) : inst[i].kind = "composite" /\ inst[i]._mountOrder # 0}

\* C26: mount orders come from a counter that only grows and are never
\* given twice or changed: two instances never share one, every one is below
\* the counter, and a mounted composite instance has a smaller mount order
\* than every composite instance below it in the tree, whether that one was
\* created by the first mount, by the retry after an error or by a
\* replacement during an update.
C26_MountOrder ==
  /\ [](/\ \A i \in Stamped : inst[i]._mountOrder < nextMountID
        /\ \A i, j \in Stamped :
             i # j => inst[i]._mountOrder # inst[j]._mountOrder
        /\ \A a, b \in 1..Len(inst) :
             (/\ inst[a].inMap
              /\ inst[b].kind = "composite"
              /\ IsAncestor(a, b))
               => (a \in Stamped /\ b \in Stamped
                     /\ inst[a]._mountOrder < inst[b]._mountOrder))
  /\ [][/\ nextMountID' >= nextMountID
        /\ \A i \in Stamped :
             /\ i <= Len(inst')
             /\ inst'[i]._mountOrder = inst[i]._mountOrder
        /\ \A i \in 1..Len(inst') :
             (i \notin Stamped /\ inst'[i].kind = "composite"
                /\ inst'[i]._mountOrder # 0)
               => inst'[i]._mountOrder >= nextMountID]_vars

\* the first mount attempt of Inner failed, the retry mounted another Inner,
\* and an update then replaced that one by an Other, which is mounted under
\* Outer with the highest mount order
C26_Witness ==
  \E a, b, c, d \in Stamped :
    /\ TypeOf(Cur, a) = "Outer" /\ inst[a].inMap
    /\ inst[a]._renderedComponent = b
    /\ TypeOf(Cur, b) = "Other" /\ inst[b].inMap
    /\ c # d
    /\ TypeOf(Cur, c) = "Inner" /\ TypeOf(Cur, d) = "Inner"
    /\ inst[b]._mountOrder > inst[c]._mountOrder
    /\ inst[b]._mountOrder > inst[d]._mountOrder
    /\ mode = "idle"

-----------------------------------------------------------------------------

\* the reconcile transaction an event belongs to: the pass it is in, or 0
\* for the transaction of the mount that started the batch
TxOf(j) ==
  LET starts == {k \in 1..j : IsPassStart(k)}
  IN IF starts = {} THEN 0 ELSE CHOOSE k \in starts : \A m \in starts : m <= k

\* at event d the mountComponent call that began at m has ended
MountEnded(m, d) ==
  \E f \in (m + 1)..(d - 1) :
    log[f][1] \in {"mounted", "mountThrew"} /\ log[f][2] = log[m][2]

\* C27: when componentDidMount is invoked, every mountComponent call of the
\* same transaction has ended and none begins later in it; no instance has
\* the hook invoked twice; when no user code has thrown and the flush has
\* returned, every instance mounted since the trigger that is still mounted
\* and has the hook has had it invoked once; and the hook of a descendant is
\* invoked before that of its ancestor.
C27_DidMountAfterTree ==
  /\ \A d \in 1..Len(log) :
       log[d][1] = "componentDidMount" =>
         LET tx == TxOf(d)
         IN /\ \A m \in (tx + 1)..(d - 1) :
                 log[m][1] = "mountComponent" => MountEnded(m, d)
            /\ \A m \in (d + 1)..Len(log) :
                 log[m][1] = "mountComponent" => TxOf(m) # tx
            /\ \A e \in (d + 1)..Len(log) :
                 ~Is(e, "componentDidMount", log[d][2])
            /\ \A e \in 1..(d - 1) :
                 log[e][1] = "componentDidMount"
                   => ~IsAncestor(log[e][2], log[d][2])
  /\ (mode = "idle" /\ NoErrors) =>
       \A m \in 1..Len(log) :
         (/\ log[m][1] = "mounted"
          /\ inst[log[m][2]].inMap
          /\ "componentDidMount" \in Hooks(TypeOf(Cur, log[m][2])))
           => Count(1..Len(log), "componentDidMount", log[m][2]) = 1

\* Outer and Inner have been mounted, the hook of Inner was invoked before
\* that of Outer and both after the two mountComponent calls had ended
C27_Witness ==
  /\ mode = "idle"
  /\ Returned
  /\ \E o, i \in 1..Len(inst), d1, d2, f \in 1..Len(log) :
       /\ TypeOf(Cur, o) = "Outer" /\ TypeOf(Cur, i) = "Inner"
       /\ IsAncestor(o, i)
       /\ Is(f, "mounted", o)
       /\ f < d1 /\ d1 < d2
       /\ Is(d1, "componentDidMount", i)
       /\ Is(d2, "componentDidMount", o)

-----------------------------------------------------------------------------

\* at event e of the mount, componentWillMount of an instance calls setState
\* on that instance
WillMountSetsState(e) ==
  /\ e \in MountEvents
  /\ e + 1 <= Len(log)
  /\ log[e][1] = "componentWillMount"
  /\ Is(e + 1, "enqueueUpdate", log[e][2])

\* C28: when componentWillMount calls setState, the state is merged before
\* the render of the mount, which comes next and sees it (Outer, whose render
\* reads the toggled key, mounts an Other); the instance has nothing pending
\* afterwards, is never put through updateComponent by the flush that
\* follows, which only visits it, and its render is invoked once in all.
C28_WillMountStateMerged ==
  \A e \in 1..Len(log) :
    WillMountSetsState(e) =>
      LET i == log[e][2]
      IN /\ Is(e + 2, "render", i)
         /\ inst[i].state["sw"] = 1
         /\ inst[i]._pendingStateQueue = <<>>
         /\ TypeOf(Cur, i) = "Outer" =>
              /\ log[e + 3][1] = "mountComponent"
              /\ TypeOf(Cur, log[e + 3][2]) = "Other"
         /\ Count(1..Len(log), "render", i) = 1
         /\ Count(1..Len(log), "updateComponent", i) = 0
         /\ Returned => Count(1..Len(log), "performUpdateIfNecessary", i) = 1

\* componentWillMount of Outer called setState, Outer rendered an Other, and
\* the flush after the mount has visited Outer and returned
C28_Witness ==
  /\ mode = "idle"
  /\ Returned
  /\ \E e \in 1..Len(log) :
       /\ WillMountSetsState(e)
       /\ TypeOf(Cur, log[e][2]) = "Outer"
       /\ inst[log[e][2]].inMap
       /\ Count(1..Len(log), "performUpdateIfNecessary", log[e][2]) = 1

-----------------------------------------------------------------------------

\* the instances of the log whose unit declares the error-recovery hook
Boundaries ==
  {log[m][2] : m \in {j \in 1..Len(log) :
                        /\ log[j][1] = "mountComponent"
                        /\ "unstable_handleError" \in Hooks(TypeOf(Cur, log[j][2]))}}

\* C29 as stated: in the mount of a unit with the error-recovery hook,
\* componentWillMount is invoked once whether or not the first attempt
\* fails, the error-recovery hook at most once, and a mount whose hook was
\* invoked either ends mounted or throws to its caller.
C29_WillMountOncePerMount ==
  \A i \in Boundaries :
    /\ Count(1..Len(log), "componentWillMount", i) = 1
    /\ Count(1..Len(log), "unstable_handleError", i) <= 1
    /\ Count(1..Len(log), "mounted", i) + Count(1..Len(log), "mountThrew", i) = 1

\* C30: when the first attempt to mount the subtree of an error boundary
\* fails and the boundary recovers, no componentDidMount that an instance of
\* the failed attempt had enqueued on the transaction is ever invoked, and
\* every componentDidMount enqueued before the boundary started to mount is
\* invoked exactly once.
Enqueued(e) ==
  /\ log[e][1] = "mounted"
  /\ "componentDidMount" \in Hooks(TypeOf(Cur, log[e][2]))

\* the boundary whose mount starts at event m handles an error at event h
\* and is mounted in the end
Recovered(m, h) ==
  /\ m < h
  /\ log[m][1] = "mountComponent"
  /\ log[h] = <<"unstable_handleError", log[m][2]>>
  /\ \E d \in h + 1..Len(log) : log[d] = <<"mounted", log[m][2]>>

C30_RollbackDiscardsFailedAttempt ==
  \A m, h \in 1..Len(log) :
    Recovered(m, h) =>
      /\ \A e \in m + 1..h - 1 :
           Enqueued(e) => Count(1..Len(log), "componentDidMount", log[e][2]) = 0
      /\ \A e \in 1..m - 1 :
           Enqueued(e) => Count(1..Len(log), "componentDidMount", log[e][2]) = 1

C30_Witness ==
  \E m, h \in 1..Len(log) :
    /\ Recovered(m, h)
    /\ \E e \in m + 1..h - 1 : Enqueued(e)
    /\ \E e \in 1..m - 1 : Enqueued(e)

-----------------------------------------------------------------------------

\* event e closes an update of an instance; u is the event that opened it
IsUpdateEnd(e) == log[e][1] = "updated"

UpdateStart(e) ==
  CHOOSE u \in 1..(e - 1) :
    /\ Is(u, "updateComponent", log[e][2])
    /\ \A m \in (u + 1)..(e - 1) : ~Is(m, "updateComponent", log[e][2])

\* the hook of the instance of update e was invoked while the update ran
HookIn(e, hook) ==
  \E m \in (UpdateStart(e) + 1)..(e - 1) : Is(m, hook, log[e][2])

\* C31: an update that decides not to render still commits the next
\* element, context, props and merged state and consumes the pending state
\* queue, but invokes neither render nor componentWillUpdate nor
\* componentDidUpdate and leaves the rendered child untouched.
C31_SkippedUpdateCommits ==
  \A e \in 1..Len(log) :
    (IsUpdateEnd(e) /\ ~log[e][3]) =>
      LET i == log[e][2]
          pre == log[e][4]
          post == log[e][5]
          \* the state the instance's componentWillReceiveProps queued
          queue == IF \E m \in (UpdateStart(e) + 1)..(e - 1) :
                        /\ Is(m, "componentWillReceiveProps", i)
                        /\ Is(m + 1, "enqueueUpdate", i)
                   THEN Append(pre._pendingStateQueue, Toggle)
                   ELSE pre._pendingStateQueue
      IN /\ post._currentElement = log[e][6]
         /\ post._context = log[e][7]
         /\ post.props = log[e][6].props
         /\ post.state = MergeQueue(pre.state, queue, 1, log[e][6].props)
         /\ post._pendingStateQueue = <<>>
         /\ ~post._pendingReplaceState
         /\ ~HookIn(e, "render")
         /\ ~HookIn(e, "componentWillUpdate")
         /\ post._renderedComponent = pre._renderedComponent
         /\ log[e][9] = log[e][8]
         /\ Cardinality({d \in 1..Len(log) : Is(d, "componentDidUpdate", i)})
              <= Cardinality({r \in 1..Len(log) :
                                IsUpdateEnd(r) /\ log[r][2] = i /\ log[r][3]})

\* an update with pending state did not render, and the state changed
C31_Witness ==
  \E e \in 1..Len(log) :
    /\ IsUpdateEnd(e)
    /\ ~log[e][3]
    /\ log[e][4]._pendingStateQueue # <<>>
    /\ log[e][5].state # log[e][4].state
    /\ log[e][5]._currentElement # log[e][4]._currentElement

-----------------------------------------------------------------------------

\* C32: an update that finds the force flag set renders without asking
\* shouldComponentUpdate or comparing props and state, and the flag is false
\* afterwards; without the flag the answer of a defined
\* shouldComponentUpdate decides alone, a pure unit without the hook renders
\* when props or state differ, and any other unit renders.
C32_ForceAlwaysRenders ==
  \A e \in 1..Len(log) :
    IsUpdateEnd(e) =>
      LET i == log[e][2]
          pre == log[e][4]
          post == log[e][5]
          rendered == log[e][3] /\ HookIn(e, "render")
          asked == HookIn(e, "shouldComponentUpdate")
          hasHook == "shouldComponentUpdate" \in Hooks(TypeOf(Cur, i))
      IN /\ ~post._pendingForceUpdate
         /\ IF pre._pendingForceUpdate THEN rendered /\ ~asked
            ELSE IF hasHook THEN asked /\ (rendered <=> script.scu)
            ELSE /\ ~asked
                 /\ IF pre._compositeType = CompositeTypes.PureClass
                    THEN rendered <=> \/ pre.props # post.props
                                      \/ pre.state # post.state
                    ELSE rendered

\* a forced update of a unit whose shouldComponentUpdate would have said no
C32_Witness ==
  /\ ~script.scu
  /\ \E e \in 1..Len(log) :
       /\ IsUpdateEnd(e)
       /\ log[e][4]._pendingForceUpdate
       /\ "shouldComponentUpdate" \in Hooks(TypeOf(Cur, log[e][2]))
       /\ HookIn(e, "render")

\* an update without the force flag that the hook's answer kept from rendering
C32_WitnessHook ==
  \E e \in 1..Len(log) :
    /\ IsUpdateEnd(e)
    /\ ~log[e][4]._pendingForceUpdate
    /\ HookIn(e, "shouldComponentUpdate")
    /\ ~log[e][3]

\* a forced update of a pure unit whose props and state stayed the same
C32_WitnessPure ==
  \E e \in 1..Len(log) :
    /\ IsUpdateEnd(e)
    /\ log[e][4]._pendingForceUpdate
    /\ log[e][4]._compositeType = CompositeTypes.PureClass
    /\ log[e][4].state = log[e][5].state
    /\ log[e][4].props = log[e][5].props
    /\ HookIn(e, "render")

-----------------------------------------------------------------------------

\* the componentWillReceiveProps of update e called setState
QueuedInHook(e) ==
  \E m \in (UpdateStart(e) + 1)..(e - 1) :
    /\ Is(m, "componentWillReceiveProps", log[e][2])
    /\ Is(m + 1, "enqueueUpdate", log[e][2])

C33_WitnessOwnState ==
  \E e \in 1..Len(log) :
    /\ IsUpdateEnd(e)
    /\ "componentWillReceiveProps" \in Hooks(TypeOf(Cur, log[e][2]))
    /\ log[e][4]._pendingStateQueue # <<>>
    /\ ~HookIn(e, "componentWillReceiveProps")

-----------------------------------------------------------------------------

\* C34: when an update renders a child element of the type and key of the
\* previous one, the child instance receives the element in place: the
\* instance has the same rendered child before and after, the child is not
\* unmounted (no componentWillUnmount) and no new child is mounted.
C34_SameTypeUpdatesInPlace ==
  \A e \in 1..Len(log) :
    (IsUpdateEnd(e) /\ log[e][3]) =>
      LET i == log[e][2]
          u == UpdateStart(e)
          prevChild == log[e][4]._renderedComponent
          nextChild == log[e][5]._renderedComponent
      IN shouldUpdateReactComponent(log[e][8]._currentElement,
                                    inst[nextChild]._currentElement) =>
           /\ nextChild = prevChild
           /\ log[e][9].willUnmountCalls = log[e][8].willUnmountCalls
           /\ \A m \in (u + 1)..(e - 1) :
                /\ ~Is(m, "unmountComponent", prevChild)
                /\ ~Is(m, "unmountHost", prevChild)
                /\ ~Is(m, "componentWillUnmount", prevChild)
                \* what is mounted meanwhile is mounted by a descendant's update
                /\ log[m][1] \in {"mountComponent", "mountHost"} =>
                     \E d \in (u + 1)..(m - 1) :
                       log[d][1] = "updateComponent" /\ log[d][2] # i
           /\ \E m \in (u + 1)..(e - 1) :
                /\ log[m][1] \in {"receiveComponent", "receiveHost"}
                /\ log[m][2] = prevChild
           /\ IF log[e][8].kind = "host" THEN log[e][9]._hostNode
              ELSE log[e][9].inMap /\ log[e][9]._instance = log[e][8]._instance

\* a composite child with componentWillUnmount received a new element in place
C34_Witness ==
  \E e \in 1..Len(log) :
    /\ IsUpdateEnd(e)
    /\ log[e][3]
    /\ log[e][5]._renderedComponent = log[e][4]._renderedComponent
    /\ log[e][9]._currentElement.id # log[e][8]._currentElement.id
    /\ "componentWillUnmount" \in Hooks(log[e][8]._currentElement.type)

-----------------------------------------------------------------------------

\* the instance as an unmountComponent call that returned has left it holds
\* nothing any more
Released(r) ==
  /\ r._renderedComponent = 0
  /\ ~r._instance
  /\ ~r.inMap
  /\ r._pendingStateQueue = <<>>
  /\ r._pendingCallbacks = <<>>
  /\ r._pendingElement.id = 0
  /\ ~r._pendingForceUpdate
  /\ ~r._pendingReplaceState

\* C35: however often and however unmountComponent is called on an
\* instance, its componentWillUnmount is invoked at most once; a call that
\* returns leaves the instance without rendered child, public instance,
\* pending state, callbacks, element and force flag, and a call on an
\* instance without rendered child changes nothing.
C35_UnmountIsTerminal ==
  /\ \A i \in 1..Len(inst) : inst[i].willUnmountCalls <= 1
  /\ \A e \in 1..Len(log) :
       log[e][1] = "unmounted" =>
         /\ Released(log[e][5])
         /\ log[e][4]._renderedComponent = 0 =>
              /\ log[e][5] = log[e][4]
              /\ log[e - 1] = <<"unmountComponent", log[e][2]>>

\* an instance whose unmountComponent returned has since been handed to
\* unmountComponent again, and its hook had thrown in a call before
C35_Repeated ==
  \E e \in 1..Len(log) :
    /\ log[e][1] = "unmounted"
    /\ log[e][4]._renderedComponent = 0
    /\ log[e][4].willUnmountCalls = 1
    /\ budget = 0
    /\ script.hook = "componentWillUnmount"

-----------------------------------------------------------------------------

\* event e closes an unmountComponent call on an instance; s opened it
IsUnmountEnd(e) == log[e][1] \in {"unmounted", "unmountThrew"}

UnmountStart(e) ==
  CHOOSE s \in 1..(e - 1) :
    /\ Is(s, "unmountComponent", log[e][2])
    /\ \A m \in (s + 1)..(e - 1) : ~Is(m, "unmountComponent", log[e][2])

\* C36: an unmountComponent call invokes the instance's own
\* componentWillUnmount before anything of the unmount of its rendered child
\* and of the descendants, hands the child the safely flag it was called
\* with, and clears the instance's own fields only when the child's
\* unmount has returned.
C36_ParentHookFirstClearLast ==
  \A e \in 1..Len(log) :
    (IsUnmountEnd(e) /\ log[e][4]._renderedComponent # 0) =>
      LET i == log[e][2]
          s == UnmountStart(e)
          child == log[e][4]._renderedComponent
      IN /\ \A m \in (s + 1)..(e - 1) :
              /\ Is(m, "componentWillUnmount", i) => m = s + 1
              /\ (log[m][2] # i /\ log[m][1] \in {"unmountComponent", "unmountHost",
                                                   "componentWillUnmount"}) =>
                   \/ log[e][4]._calledComponentWillUnmount
                   \/ "componentWillUnmount" \notin Hooks(TypeOf(Cur, i))
                   \/ Is(s + 1, "componentWillUnmount", i)
              /\ (IsUnmountEnd(m) /\ log[m][2] = child) =>
                   /\ log[m][3] = log[e][3]
                   \* the parent as the child's unmount leaves it
                   /\ log[m][6][i]._renderedComponent = child
                   /\ log[m][6][i]._instance
                   /\ log[m][6][i].inMap
                   /\ log[m][6][i]._pendingStateQueue = log[e][4]._pendingStateQueue
                   /\ log[m][6][i]._pendingForceUpdate = log[e][4]._pendingForceUpdate
         \* the call returned: the child's unmount has returned before
         /\ log[e][1] = "unmounted" =>
              \E m \in (s + 1)..(e - 1) :
                /\ log[m][2] = child
                /\ log[m][1] \in {"unmounted", "unmountHost"}

\* a unit with pending work whose own hook and whose child's hook were both
\* invoked by one call, which returned
C36_Witness ==
  \E e \in 1..Len(log) :
    /\ log[e][1] = "unmounted"
    /\ log[e][4]._renderedComponent # 0
    /\ log[e][4]._pendingForceUpdate
    /\ Is(UnmountStart(e) + 1, "componentWillUnmount", log[e][2])
    /\ \E m \in (UnmountStart(e) + 2)..(e - 1) :
         Is(m, "componentWillUnmount", log[e][4]._renderedComponent)

-----------------------------------------------------------------------------

\* the call that event e closes invoked the instance's componentWillUnmount,
\* which threw
OwnHookThrew(e) ==
  /\ Is(UnmountStart(e) + 1, "componentWillUnmount", log[e][2])
  /\ script.hook = "componentWillUnmount"
  /\ script.act = "throw"
  /\ script.type = TypeOf(Cur, log[e][2])
  /\ log[e][4].willUnmountCalls = 0
  /\ \A j \in 1..Len(inst) :
       (j # log[e][2] /\ TypeOf(Cur, j) = script.type) =>
         log[e][6][j].willUnmountCalls = 0

\* C37: when componentWillUnmount throws in a call with safely = true the
\* unmount goes on, the rendered child is unmounted and the instance's
\* fields are cleared; with safely = false the error leaves
\* unmountComponent at once, the child is not unmounted and the fields are
\* not cleared.
C37_SafelyKeepsUnmounting ==
  \A e \in 1..Len(log) :
    (IsUnmountEnd(e) /\ log[e][4]._renderedComponent # 0 /\ OwnHookThrew(e)) =>
      LET i == log[e][2]
          s == UnmountStart(e)
          pre == log[e][4]
          post == log[e][5]
          child == pre._renderedComponent
      IN IF log[e][3]
         THEN /\ log[e][1] = "unmounted"
              /\ Released(post)
              /\ \E m \in (s + 2)..(e - 1) :
                   /\ log[m][2] = child
                   /\ log[m][1] \in {"unmounted", "unmountHost"}
              /\ IF log[e][6][child].kind = "host" THEN ~log[e][6][child]._hostNode
                 ELSE Released(log[e][6][child])
         ELSE /\ log[e][1] = "unmountThrew"
              /\ e = s + 2
              \* nothing lies between the hook and the throw: the child's
              \* unmount has not begun
              /\ \A m \in (s + 1)..e : log[m][2] # child
              /\ post = [pre EXCEPT !._calledComponentWillUnmount = TRUE,
                                    !.willUnmountCalls = 1]
              /\ post._renderedComponent = child

\* the hook of a unit with a composite child threw in a safe call
C37_Witness ==
  \E e \in 1..Len(log) :
    /\ IsUnmountEnd(e)
    /\ log[e][4]._renderedComponent # 0
    /\ OwnHookThrew(e)
    /\ log[e][3]
    /\ log[e][6][log[e][4]._renderedComponent].kind = "composite"
    /\ budget = 0

\* the hook threw in a call that was not safe
C37_WitnessUnsafe ==
  \E e \in 1..Len(log) :
    /\ IsUnmountEnd(e)
    /\ log[e][4]._renderedComponent # 0
    /\ OwnHookThrew(e)
    /\ ~log[e][3]
    /\ lastError # NoErr

-----------------------------------------------------------------------------
(* The close of the transaction of pass k: the loop of the pass ends at     *)
(* LoopEnd(k); NESTED_UPDATES.close may then run a nested invocation, one   *)
(* level deeper; UPDATE_QUEUEING.close follows and lasts until the next     *)
(* event of the invocation the pass belongs to.                             *)

IsLoopEnd(d) == log[d][1] \in {"windowDone", "threw"}

LoopEnd(k) ==
  CHOOSE d \in (k + 1)..Len(log) :
    IsLoopEnd(d) /\ \A m \in (k + 1)..(d - 1) : ~IsLoopEnd(m)

\* an event of the invocation of flushBatchedUpdates at the given depth
AtDepth(c, depth) ==
  /\ log[c][1] \in {"runBatchedUpdates", "asapDrain", "return", "throw"}
  /\ log[c][2] = depth

HasCloseEnd(k) == \E c \in (LoopEnd(k) + 1)..Len(log) : AtDepth(c, log[k][2])

CloseEnd(k) ==
  CHOOSE c \in (LoopEnd(k) + 1)..Len(log) :
    /\ AtDepth(c, log[k][2])
    /\ \A m \in (LoopEnd(k) + 1)..(c - 1) : ~AtDepth(m, log[k][2])

\* where UPDATE_QUEUEING.close of pass k begins
QueueingStart(k) ==
  LET ends == {p \in (LoopEnd(k) + 1)..(CloseEnd(k) - 1) : IsNestedEnd(k, p)}
  IN IF ends = {} THEN LoopEnd(k) ELSE CHOOSE p \in ends : \A q \in ends : q <= p

\* C38: the callbacks an instance has pending when a pass processes it are
\* invoked exactly once each, with the instance's public instance as
\* receiver, by UPDATE_QUEUEING.close of that pass, after every instance of
\* the pass's window has been reconciled; the instance has no pending
\* callbacks once the pass has processed it.  (The public instance of a
\* composite is identified with the composite's index.)
C38_CallbacksOnceAfterWindow ==
  \A k \in Passes :
    LET d == LoopEnd(k)
    IN \A p \in (k + 1)..(d - 1) :
         (log[p][1] = "performUpdateIfNecessary" /\ log[p][3] > 0) =>
           LET i == log[p][2]
           IN /\ \A m \in (k + 1)..d : ~Is(m, "callback", i)
              /\ \A q \in (p + 1)..(d - 1) :
                   Is(q, "performUpdateIfNecessary", i) => log[q][3] = 0
              /\ log[d][1] = "windowDone" =>
                   /\ log[d][3][i] = 0
                   /\ \A j \in 1..Len(log[k][4]) :
                        \E q \in (k + 1)..(d - 1) :
                          Is(q, "performUpdateIfNecessary", log[k][4][j])
              /\ (log[d][1] = "windowDone" /\ HasCloseEnd(k)
                    /\ log[CloseEnd(k)][1] # "throw") =>
                   Count((QueueingStart(k) + 1)..(CloseEnd(k) - 1),
                         "callback", i) = log[p][3]

\* a pass over a window of two instances took a callback from one of them,
\* and the close of its transaction has invoked it
C38_Witness ==
  \E k \in Passes :
    /\ Len(log[k][4]) >= 2
    /\ log[LoopEnd(k)][1] = "windowDone"
    /\ HasCloseEnd(k)
    /\ log[CloseEnd(k)][1] # "throw"
    /\ \E p \in (k + 1)..(LoopEnd(k) - 1) :
         /\ log[p][1] = "performUpdateIfNecessary"
         /\ log[p][3] > 0
         /\ Count((QueueingStart(k) + 1)..(CloseEnd(k) - 1),
                  "callback", log[p][2]) = log[p][3]

-----------------------------------------------------------------------------

\* pass k ran its loop to the end and its transaction closed without an error
ClosedOk(k) ==
  /\ log[LoopEnd(k)][1] = "windowDone"
  /\ HasCloseEnd(k)
  /\ log[CloseEnd(k)][1] # "throw"

\* the events of UPDATE_QUEUEING.close of pass k
Queueing(k) == (QueueingStart(k) + 1)..(CloseEnd(k) - 1)

\* user code enqueued an update at event e during pass k, before
\* NESTED_UPDATES.close of the pass
EnqueuedInPass(k, e) ==
  /\ k < e
  /\ e < CloseEnd(k)
  /\ log[e][1] = "enqueueUpdate"
  /\ \A m \in (k + 1)..e :
       ~Is(m, "flushBatchedUpdates", log[k][2] + 1) /\ log[m][1] # "callback"

\* C39 as stated: the callbacks a pass collected are invoked before any
\* instance enqueued during that pass is reconciled.
C39_CallbacksBeforeEnqueued ==
  \A k \in Passes :
    ClosedOk(k) =>
      \A e \in (k + 1)..(CloseEnd(k) - 1) :
        EnqueuedInPass(k, e) =>
          \A c \in Queueing(k) :
            log[c][1] = "callback" =>
              \A r \in (e + 1)..(c - 1) :
                ~Is(r, "performUpdateIfNecessary", log[e][2])

\* the nested invocation of pass k started at n and ended at q: what was
\* enqueued before n has been reconciled between n and q, the invocation
\* returned, and no callback ran between the loop's end and n
NestedFirst(k, d, n, q) ==
  /\ Is(q, "return", log[k][2] + 1)
  /\ \A m \in (d + 1)..n : log[m][1] # "callback"
  /\ \A e \in (k + 1)..(n - 1) :
       log[e][1] = "enqueueUpdate" =>
         \E r \in (n + 1)..(q - 1) :
           Is(r, "performUpdateIfNecessary", log[e][2])

\* C39, amended: the callbacks a pass collected are invoked by
\* UPDATE_QUEUEING.close of its transaction, before the next iteration of
\* the same flushBatchedUpdates invocation begins, but after the nested
\* invocation that NESTED_UPDATES.close makes when updates were enqueued
\* during the pass: every instance enqueued during the pass has been
\* reconciled by that nested invocation when the first callback runs.
C39_CallbacksAfterNestedFlush ==
  \A k \in Passes :
    ClosedOk(k) =>
      LET d == LoopEnd(k)
          c == CloseEnd(k)
          q == QueueingStart(k)
          starts == {n \in (d + 1)..(q - 1) :
                       Is(n, "flushBatchedUpdates", log[k][2] + 1)}
      IN /\ \A p \in (k + 1)..(d - 1) :
              (log[p][1] = "performUpdateIfNecessary" /\ log[p][3] > 0) =>
                \E m \in (q + 1)..(c - 1) : Is(m, "callback", log[p][2])
         /\ IF q > d
            THEN /\ starts # {}
                 /\ NestedFirst(k, d, CHOOSE n \in starts :
                                        \A m \in starts : n <= m, q)
            ELSE \A e \in (k + 1)..(c - 1) :
                   log[e][1] = "enqueueUpdate" =>
                     \E m \in (d + 1)..(e - 1) : log[m][1] = "callback"

\* a pass took a callback, a hook enqueued an update during the pass, the
\* nested invocation reconciled it and the callback ran afterwards
C39_Witness ==
  \E k \in Passes :
    /\ ClosedOk(k)
    /\ \E e \in (k + 1)..(CloseEnd(k) - 1) : EnqueuedInPass(k, e)
    /\ \E c \in Queueing(k) : log[c][1] = "callback"

-----------------------------------------------------------------------------

\* C40 as stated: in every reachable state, also after a flush that an
\* error aborted, the _updateBatchNumber of each instance is null, or
\* equal to updateBatchNumber, or equal to updateBatchNumber + 1.
C40_StampIsCurrentOrNext ==
  \A i \in 1..Len(inst) :
    inst[i]._updateBatchNumber \in
      {Null, updateBatchNumber, updateBatchNumber + 1}

====
